---- MODULE Spec2Model ----
(***************************************************************************)
(* The three compliance checks of frontend/src/lib/checks.ts (checkRLS,    *)
(* checkMFA, checkPITR) as state machines.  Every await of the source is a *)
(* step: the request is recorded in the check's call log when it is        *)
(* issued, and the action that handles the response draws the response     *)
(* from the outcomes the client or endpoint can produce.                   *)
(***************************************************************************)
EXTENDS Integers, Sequences, FiniteSets, TLC

VARIABLES
    rlsPc,        \* position of checkRLS: idle, mgmtTables, mgmtPolicies, direct, done
    rlsIn,        \* the arguments of the running checkRLS call
    rlsPath,      \* why the run is where it is (which branch of checkRLS was taken)
    rlsCalls,     \* requests issued by the run so far
    apiTables,    \* checkRLSWithManagementAPI: the parsed /database/tables answer
    apiPolicies,  \* checkRLSWithManagementAPI: the parsed /database/policies answer
    tpc,          \* checkTableRls, per requested list element: position
    tres,         \* checkTableRls, per requested list element: the RlsCheckResult
    tread,        \* per requested list element: how the one-row read ended
    tflag,        \* per requested list element: what the catalog probes gave
    rlsVerdict,   \* the CheckResult checkRLS returned
    first,        \* the CheckResult of the previous checkRLS call, if any
    stable,       \* the checks whose requests the backend answers as before
    backend,      \* the answers the backend has given to the stable checks
    ctxCredentials,        \* Dashboard: credentials of the CredentialsContext
    managementApiKey,      \* Dashboard: the management key input
    managementApiKeyError, \* Dashboard: the message under that input
    customTablesInput,     \* Dashboard: customTables, the text of the input
    loading,               \* Dashboard: loading
    dashError,             \* Dashboard: error
    dashResults,           \* Dashboard: results, the status per check
    evidence,              \* Dashboard: the evidence log
    suggestedFixes,        \* Dashboard: suggestedFixes
    runPc,                 \* position of handleRunChecks: idle, checks
    mounted,               \* Dashboard: the component is mounted
    openAIApiKey,          \* Dashboard: an OpenAI key has been entered
    updatePc,              \* position of handleUpdateTablesList: idle, discover
    analysing,             \* handleAnalyzeIssues: the suggestions still to fetch
    isLoaded,              \* CredentialsProvider: isLoaded
    storage,               \* sessionStorage: the item supabaseCredentials
    effects,               \* CredentialsProvider: the effects that are due
    updates,               \* CredentialsProvider: state updates not yet rendered
    called,                \* setCredentials or clearCredentials has been called
    mfaPc,        \* position of checkMFA: idle, listUsers, authUsers, done
    mfaCalls,     \* requests issued by the running checkMFA
    mfaUsers,     \* checkMFA: the users of the enumeration that was used
    mfaVerdict,   \* the CheckResult checkMFA returned
    pitrPc,       \* position of checkPITR: idle, subscription, backups, done
    pitrIn,       \* the credentials of the running checkPITR call
    pitrCalls,    \* requests issued by the running checkPITR
    pitrTier,     \* checkPITR: how the subscription call ended, and its answer
    pitrBackup,   \* checkPITR: how the backup-info call ended
    pitrVerdict   \* the CheckResult checkPITR returned

rlsVars == <<rlsPc, rlsIn, rlsPath, rlsCalls, apiTables, apiPolicies,
             tpc, tres, tread, tflag, rlsVerdict, first>>

envVars == <<stable, backend>>

opVars == <<mounted, openAIApiKey, updatePc, analysing>>

provVars == <<isLoaded, storage, effects, updates, called>>

uiVars == <<ctxCredentials, managementApiKey, managementApiKeyError,
            customTablesInput, loading, dashError, dashResults, evidence,
            suggestedFixes, runPc, opVars, provVars>>

mfaVars == <<mfaPc, mfaCalls, mfaUsers, mfaVerdict>>

pitrVars == <<pitrPc, pitrIn, pitrCalls, pitrTier, pitrBackup, pitrVerdict>>

vars == <<rlsVars, mfaVars, pitrVars, envVars, uiVars>>

(***************************************************************************)
(* Bounds of the model.                                                    *)
(***************************************************************************)
MaxTables == 2
MaxApiRows == 2
MaxUsers == 2
MaxFactors == 2
MaxTierLen == 4
MaxLog == 2
MaxSuggestions == 3
MaxUpdates == 3

SeqsUpTo(S, n) == UNION {[1..k -> S] : k \in 0..n}

Includes(s, x) == \E i \in DOMAIN s : s[i] = x

Range(s) == {s[i] : i \in DOMAIN s}

(***************************************************************************)
(* Inputs.                                                                 *)
(***************************************************************************)
Names == {"orders", "profiles"}

SupabaseUrl == "https://abc.supabase.co"
Urls == {"", SupabaseUrl, "http://localhost:54321"}

NoRef == "null"

\* extractProjectRef: the first match of https://([^.]+).supabase.co, or null
extractProjectRef(url) == IF url = SupabaseUrl THEN "abc" ELSE NoRef

\* customTables is optional: given = FALSE stands for undefined
RlsInputs ==
    [given : BOOLEAN, customTables : SeqsUpTo(Names, MaxTables),
     managementKey : BOOLEAN, url : Urls, serviceRoleKey : BOOLEAN]

\* what a fetch of the control plane can end as
\* throw: the fetch or the parse of its body rejects; http: a non-2xx answer
FetchFailures == {"throw", "http"}


(***************************************************************************)
(* CheckResult of checkRLS.  message is the fixed text of the message and  *)
(* messageTables the table names joined into it; keys are the keys of the  *)
(* details object.                                                         *)
(***************************************************************************)
RlsResult(status, message, names, keys, results, error, requested, available) ==
    [status |-> status, message |-> message, messageTables |-> names,
     keys |-> keys, table_results |-> results, error |-> error,
     tables_requested |-> requested, tables_available |-> available]

NoVerdict == RlsResult("none", "", <<>>, {}, <<>>, "", <<>>, <<>>)

ErrorResult(message, keys, error) ==
    RlsResult("error", message, <<>>, keys, <<>>, error, <<>>, <<>>)

\* the guard without its length test
NoTablesProvidedMut(in) == ~in.given

\* checkRLS, the guard on customTables
NoTablesProvided(in) == ~in.given \/ Len(in.customTables) = 0

NoTablesResult ==
    ErrorResult("No tables provided for RLS check. Please specify tables to check.",
                {"error"}, "Missing required parameter: tables to check")

NoUrlResult ==
    ErrorResult("Could not extract project URL from Supabase client", {}, "")

InvalidUrlResult ==
    ErrorResult("Invalid Supabase URL. Unable to extract project reference.",
                {"url"}, "")

\* createClient throws on an empty key; the catch of checkRLS turns it into error
ClientFailedResult ==
    ErrorResult("Failed to check RLS: supabaseKey is required.", {"error"},
                "supabaseKey is required.")

(***************************************************************************)
(* checkRLSWithManagementAPI, the computation on the two parsed answers.   *)
(***************************************************************************)
publicTables(tables) ==
    SelectSeq(tables, LAMBDA t : t.schema = "public" /\ t.type = "table")

tablesToCheck(tables, customTables) ==
    SelectSeq(publicTables(tables), LAMBDA t : Includes(customTables, t.name))

NamesOf(tables) == [i \in DOMAIN tables |-> tables[i].name]

NoneFoundResult(customTables, tables) ==
    RlsResult("error", "None of the specified tables were found in the database.",
              <<>>, {"tables_requested", "tables_available"}, <<>>, "",
              customTables, NamesOf(publicTables(tables)))

\* only the first policy of the list looked at
tablesWithPolicyMut(policies) ==
    IF policies = <<>> THEN {} ELSE {policies[1].table}

tablesWithPolicy(policies) == {policies[i].table : i \in DOMAIN policies}

PolicyResults(tableNames, policies) ==
    [i \in DOMAIN tableNames |->
        [table |-> tableNames[i],
         rlsEnabled |-> tableNames[i] \in tablesWithPolicy(policies),
         error |-> "null"]]

DisabledOf(results) == SelectSeq(results, LAMBDA r : ~r.rlsEnabled)

TableOf(results) == [i \in DOMAIN results |-> results[i].table]

ManagementResult(tableNames, policies) ==
    LET tableResults == PolicyResults(tableNames, policies)
        disabled == DisabledOf(tableResults)
    IN  IF Len(disabled) = 0
        THEN RlsResult("pass", "RLS enabled for all tables checked.", <<>>,
                       {"tables_checked", "tables_checked_list", "table_results"},
                       tableResults, "", <<>>, <<>>)
        ELSE RlsResult("fail", "RLS not enabled for tables", TableOf(disabled),
                       {"tables_checked", "tables_without_rls", "failing_tables",
                        "table_results"},
                       tableResults, "", <<>>, <<>>)

(***************************************************************************)
(* checkTablesRls, the computation on the per-table results.               *)
(***************************************************************************)
FallbackTag == "RLS status determined by fallback method. May not be accurate."
CouldNotQueryTag == "Could not query table: fetch failed"

\* the error field of every entry dropped
TableResultsMut(results) ==
    [i \in DOMAIN results |->
        [table |-> results[i].table,
         rlsEnabled |-> ~results[i].rlsDisabled,
         error |-> "null"]]

TableResults(results) ==
    [i \in DOMAIN results |->
        [table |-> results[i].table,
         rlsEnabled |-> ~results[i].rlsDisabled,
         error |-> IF results[i].errorMessage = "undefined" THEN "null"
                   ELSE results[i].errorMessage]]

tablesWithRlsDisabled(results) == SelectSeq(results, LAMBDA r : r.rlsDisabled)

\* a slip in the comparison: one disabled table is let through
hasFailureMut(results) == Len(tablesWithRlsDisabled(results)) > 1

hasFailure(results) == Len(tablesWithRlsDisabled(results)) > 0

TablesRlsResult(results) ==
    IF hasFailure(results)
    THEN RlsResult("fail", "RLS is disabled on tables",
                   TableOf(tablesWithRlsDisabled(results)),
                   {"tables_checked", "tables_with_rls_disabled", "failing_tables",
                    "table_results"},
                   TableResults(results), "", <<>>, <<>>)
    ELSE RlsResult("pass", "RLS is enabled on all tables checked", <<>>,
                   {"tables_checked", "tables_with_rls_disabled", "failing_tables",
                    "table_results"},
                   TableResults(results), "", <<>>, <<>>)


(***************************************************************************)
(* The requests.  A control-plane request names no table.                  *)
(***************************************************************************)
Call(ep, table) == [ep |-> ep, table |-> table]

ReadEp == "select"

\* the first await of checkTableRls, run for every list element by the map
FirstProbes(tables) == {Call("pg_tables", tables[i]) : i \in DOMAIN tables}

NoResults(tables) ==
    [i \in DOMAIN tables |->
        [table |-> tables[i], rlsDisabled |-> FALSE, errorMessage |-> "pending"]]

(***************************************************************************)
(* The backend.  When it is stable it answers a request it has answered    *)
(* before in the same way: the answers are kept per control-plane endpoint *)
(* and per query and table name.                                           *)
(***************************************************************************)

PlaneAnswer(how, rows) == [how |-> how, rows |-> rows]

NoBackend ==
    [plane |-> [ep \in {"database/tables", "database/policies"} |-> PlaneAnswer("none", <<>>)],
     data |-> [q \in ({"pg_tables", "pg_class", "exec_sql"} \cup {ReadEp}) \X Names |-> "none"],
     mfa |-> [ep \in {"auth.admin.listUsers", "from(auth.users).select"} |-> PlaneAnswer("none", <<>>)],
     pitr |-> [ep \in {"subscription", "database/backups/info"} |-> PlaneAnswer("none", <<>>)]]

PlaneAnswers(ep, answer) ==
    /\ "rls" \in stable =>
          backend.plane[ep].how = "none" \/ backend.plane[ep] = answer
    /\ backend' = IF "rls" \in stable THEN [backend EXCEPT !.plane[ep] = answer]
                   ELSE backend

DataAnswers(ep, table, answer) ==
    /\ "rls" \in stable => backend.data[<<ep, table>>] \in {"none", answer}
    /\ backend' = IF "rls" \in stable
                   THEN [backend EXCEPT !.data[<<ep, table>>] = answer]
                   ELSE backend

MfaAnswers(ep, answer) ==
    /\ "mfa" \in stable => backend.mfa[ep].how = "none" \/ backend.mfa[ep] = answer
    /\ backend' = IF "mfa" \in stable THEN [backend EXCEPT !.mfa[ep] = answer]
                   ELSE backend

PitrAnswers(ep, answer) ==
    /\ "pitr" \in stable =>
          backend.pitr[ep].how = "none" \/ backend.pitr[ep] = answer
    /\ backend' = IF "pitr" \in stable THEN [backend EXCEPT !.pitr[ep] = answer]
                   ELSE backend

(***************************************************************************)
(* checkRLS from the fallback comment on: the client for direct queries    *)
(* and the call of checkTablesRls, which starts checkTableRls for every    *)
(* element of the list.                                                    *)
(***************************************************************************)
RlsReturn(result) ==
    /\ rlsPc' = "done"
    /\ rlsVerdict' = result
    /\ UNCHANGED <<tpc, tres, tread, tflag>>

DirectQueries(in, calls) ==
    IF in.url = ""
    THEN RlsReturn(NoUrlResult) /\ rlsCalls' = calls
    ELSE IF extractProjectRef(in.url) = NoRef
    THEN RlsReturn(InvalidUrlResult) /\ rlsCalls' = calls
    ELSE IF ~in.serviceRoleKey
    THEN RlsReturn(ClientFailedResult) /\ rlsCalls' = calls
    ELSE /\ rlsPc' = "direct"
         /\ rlsCalls' = calls \cup FirstProbes(in.customTables)
         /\ tpc' = [i \in DOMAIN in.customTables |-> "pg_tables"]
         /\ tres' = NoResults(in.customTables)
         /\ tread' = [i \in DOMAIN in.customTables |-> "none"]
         /\ tflag' = [i \in DOMAIN in.customTables |-> "none"]
         /\ UNCHANGED rlsVerdict

(***************************************************************************)
(* checkRLS up to its first await.                                         *)
(***************************************************************************)
checkRLS(in) ==
    /\ rlsPc = "idle"
    /\ in.given \/ in.customTables = <<>>
    /\ rlsIn' = in
    /\ UNCHANGED <<apiTables, apiPolicies>>
    /\ IF NoTablesProvided(in)
       THEN /\ RlsReturn(NoTablesResult)
            /\ rlsPath' = "noTables"
            /\ UNCHANGED rlsCalls
       ELSE IF ~in.managementKey
       THEN /\ DirectQueries(in, rlsCalls)
            /\ rlsPath' = "noKey"
       ELSE IF extractProjectRef(in.url) = NoRef
       THEN /\ DirectQueries(in, rlsCalls)
            /\ rlsPath' = "noRef"
       ELSE /\ rlsPc' = "mgmtTables"
            /\ rlsPath' = "management"
            /\ rlsCalls' = rlsCalls \cup {Call("database/tables", "")}
            /\ UNCHANGED <<tpc, tres, tread, tflag, rlsVerdict>>

\* checkRLS called on its own
RlsCalled(in) ==
    /\ checkRLS(in)
    /\ UNCHANGED <<first, envVars, mfaVars, pitrVars, uiVars>>

(***************************************************************************)
(* checkRLSWithManagementAPI after the fetch of database/tables.           *)
(***************************************************************************)
\* a fail verdict of the control plane taken for a failure of the probe
ManagementReturnMut(result) ==
    IF result.status = "fail"
    THEN DirectQueries(rlsIn, rlsCalls)
    ELSE RlsReturn(result) /\ UNCHANGED rlsCalls

\* checkRLS returns what checkRLSWithManagementAPI returned
ManagementReturn(result) ==
    /\ RlsReturn(result)
    /\ UNCHANGED rlsCalls

\* the test for an empty intersection left out
NoneFoundMut(tables, customTables) == FALSE

\* tablesToCheck.length === 0
NoneFound(tables, customTables) == Len(tablesToCheck(tables, customTables)) = 0

TablesAnswer(tables) ==
    /\ apiTables' = tables
    /\ PlaneAnswers("database/tables", PlaneAnswer("ok", tables))
    /\ UNCHANGED <<rlsIn, apiPolicies, stable, first, mfaVars, pitrVars, uiVars>>
    /\ IF NoneFound(tables, rlsIn.customTables)
       THEN /\ ManagementReturn(NoneFoundResult(rlsIn.customTables, tables))
            /\ rlsPath' = "noneFound"
       ELSE /\ rlsPc' = "mgmtPolicies"
            /\ rlsCalls' = rlsCalls \cup {Call("database/policies", "")}
            /\ UNCHANGED <<rlsPath, tpc, tres, tread, tflag, rlsVerdict>>

TablesFetched ==
    /\ rlsPc = "mgmtTables"
    /\ \E tables \in (SeqsUpTo([name : Names, schema : {"public", "auth"}, type : {"table", "view"}], MaxApiRows)) : TablesAnswer(tables)

TablesFetchFailed(how) ==
    /\ rlsPc = "mgmtTables"
    /\ DirectQueries(rlsIn, rlsCalls)
    /\ rlsPath' = "tables:" \o how
    /\ PlaneAnswers("database/tables", PlaneAnswer(how, <<>>))
    /\ UNCHANGED <<rlsIn, apiTables, apiPolicies, stable, first, mfaVars, pitrVars, uiVars>>

(***************************************************************************)
(* checkRLSWithManagementAPI after the fetch of database/policies.         *)
(***************************************************************************)
PoliciesAnswer(policies) ==
    /\ apiPolicies' = policies
    /\ ManagementReturn(
          ManagementResult(NamesOf(tablesToCheck(apiTables, rlsIn.customTables)), policies))
    /\ rlsPath' = "policies"
    /\ PlaneAnswers("database/policies", PlaneAnswer("ok", policies))
    /\ UNCHANGED <<rlsIn, apiTables, stable, first, mfaVars, pitrVars, uiVars>>

PoliciesFetched ==
    /\ rlsPc = "mgmtPolicies"
    /\ \E policies \in (SeqsUpTo([table : Names], MaxApiRows)) : PoliciesAnswer(policies)

PoliciesFetchFailed(how) ==
    /\ rlsPc = "mgmtPolicies"
    /\ DirectQueries(rlsIn, rlsCalls)
    /\ rlsPath' = "policies:" \o how
    /\ apiTables' = <<>>
    /\ PlaneAnswers("database/policies", PlaneAnswer(how, <<>>))
    /\ UNCHANGED <<rlsIn, apiPolicies, stable, first, mfaVars, pitrVars, uiVars>>


(***************************************************************************)
(* checkTableRls for the i-th element of the list, one action per await.   *)
(* A query of the client answers {data, error}; it throws only when the    *)
(* request itself breaks.                                                  *)
(***************************************************************************)
CatalogAnswers == {"on", "off", "error", "throw"}
SqlAnswers == {"on", "off", "empty", "error", "throw"}
\* rows: data returned; denied: error "permission denied for table ...";
\* error: any other error object; throw: the awaited query rejects
ReadAnswers == {"rows", "denied", "error", "throw"}

CatalogResult(table, relrowsecurity) ==
    [table |-> table, rlsDisabled |-> ~relrowsecurity, errorMessage |-> "undefined"]

\* a race: the result taken from whether the read of another table is out
ReadResultMut(table, answer) ==
    [table |-> table,
     rlsDisabled |-> \E c \in rlsCalls : c.ep = ReadEp /\ c.table # table,
     errorMessage |-> FallbackTag]

\* the final fallback: only data is read from the answer, the error is not
ReadResult(table, answer) ==
    IF answer = "throw"
    THEN [table |-> table, rlsDisabled |-> FALSE, errorMessage |-> CouldNotQueryTag]
    ELSE [table |-> table, rlsDisabled |-> TRUE, errorMessage |-> FallbackTag]

TableStep(i, next, ep) ==
    /\ tpc' = [tpc EXCEPT ![i] = next]
    /\ rlsCalls' = rlsCalls \cup {Call(ep, rlsIn.customTables[i])}
    /\ UNCHANGED <<tres, tread>>

\* the results collected in the order in which the probes complete
TableDoneMut(i, result) ==
    /\ tpc' = [tpc EXCEPT ![i] = "done"]
    /\ tres' = [tres EXCEPT
                  ![1 + Cardinality({j \in DOMAIN tpc : tpc[j] = "done"})] = result]
    /\ UNCHANGED rlsCalls

TableDone(i, result) ==
    /\ tpc' = [tpc EXCEPT ![i] = "done"]
    /\ tres' = [tres EXCEPT ![i] = result]
    /\ UNCHANGED rlsCalls

RlsFrame ==
    UNCHANGED <<rlsPc, rlsIn, rlsPath, apiTables, apiPolicies, rlsVerdict,
                stable, first, mfaVars, pitrVars, uiVars>>

PgTablesAnswered(i, answer) ==
    /\ rlsPc = "direct"
    /\ i \in DOMAIN tpc
    /\ tpc[i] = "pg_tables"
    /\ DataAnswers("pg_tables", rlsIn.customTables[i], answer)
    /\ IF answer = "row"
       THEN TableStep(i, "pg_class", "pg_class")
       ELSE TableStep(i, "exec_sql", "exec_sql")
    /\ UNCHANGED tflag
    /\ RlsFrame

PgClassAnswered(i, answer) ==
    /\ rlsPc = "direct"
    /\ i \in DOMAIN tpc
    /\ tpc[i] = "pg_class"
    /\ DataAnswers("pg_class", rlsIn.customTables[i], answer)
    /\ IF answer \in {"on", "off"}
       THEN /\ TableDone(i, CatalogResult(rlsIn.customTables[i], answer = "on"))
            /\ tflag' = [tflag EXCEPT ![i] = answer]
            /\ UNCHANGED tread
       ELSE TableStep(i, "exec_sql", "exec_sql") /\ UNCHANGED tflag
    /\ RlsFrame

\* a flag that says off taken for a failure of the probe
ExecSqlAnsweredMut(i, answer) ==
    /\ rlsPc = "direct"
    /\ i \in DOMAIN tpc
    /\ tpc[i] = "exec_sql"
    /\ DataAnswers("exec_sql", rlsIn.customTables[i], answer)
    /\ IF answer = "on"
       THEN /\ TableDone(i, CatalogResult(rlsIn.customTables[i], TRUE))
            /\ tflag' = [tflag EXCEPT ![i] = answer]
            /\ UNCHANGED tread
       ELSE /\ TableStep(i, "select", ReadEp)
            /\ tflag' = [tflag EXCEPT ![i] = IF answer = "off" THEN "off" ELSE "failed"]
    /\ RlsFrame

\* the last catalog probe: its flag decides, anything else leads to the read
ExecSqlAnswered(i, answer) ==
    /\ rlsPc = "direct"
    /\ i \in DOMAIN tpc
    /\ tpc[i] = "exec_sql"
    /\ DataAnswers("exec_sql", rlsIn.customTables[i], answer)
    /\ IF answer \in {"on", "off"}
       THEN /\ TableDone(i, CatalogResult(rlsIn.customTables[i], answer = "on"))
            /\ tflag' = [tflag EXCEPT ![i] = answer]
            /\ UNCHANGED tread
       ELSE /\ TableStep(i, "select", ReadEp)
            /\ tflag' = [tflag EXCEPT ![i] = "failed"]
    /\ RlsFrame

TableRead(i, answer) ==
    /\ rlsPc = "direct"
    /\ i \in DOMAIN tpc
    /\ tpc[i] = "select"
    /\ DataAnswers(ReadEp, rlsIn.customTables[i], answer)
    /\ TableDone(i, ReadResult(rlsIn.customTables[i], answer))
    /\ tread' = [tread EXCEPT ![i] = answer]
    /\ UNCHANGED tflag
    /\ RlsFrame

(***************************************************************************)
(* checkTablesRls after Promise.all: every checkTableRls has returned.     *)
(***************************************************************************)
checkTablesRls ==
    /\ rlsPc = "direct"
    /\ \A i \in DOMAIN tpc : tpc[i] = "done"
    /\ RlsReturn(TablesRlsResult(tres))
    /\ UNCHANGED <<rlsIn, rlsPath, rlsCalls, apiTables, apiPolicies,
                    stable, backend, first, mfaVars, pitrVars, uiVars>>

RlsInit ==
    /\ rlsPc = "idle"
    /\ rlsIn = [given |-> FALSE, customTables |-> <<>>, managementKey |-> FALSE,
                url |-> "", serviceRoleKey |-> FALSE]
    /\ rlsPath = "none"
    /\ rlsCalls = {}
    /\ apiTables = <<>>
    /\ apiPolicies = <<>>
    /\ tpc = <<>>
    /\ tres = <<>>
    /\ tread = <<>>
    /\ tflag = <<>>
    /\ rlsVerdict = NoVerdict
    /\ first = NoVerdict

RlsNext ==
    \/ \E in \in RlsInputs : RlsCalled(in)
    \/ TablesFetched
    \/ \E how \in FetchFailures : TablesFetchFailed(how)
    \/ PoliciesFetched
    \/ \E how \in FetchFailures : PoliciesFetchFailed(how)
    \/ \E i \in 1..MaxTables, answer \in {"row", "error", "throw"} :
          PgTablesAnswered(i, answer)
    \/ \E i \in 1..MaxTables, answer \in CatalogAnswers : PgClassAnswered(i, answer)
    \/ \E i \in 1..MaxTables, answer \in SqlAnswers : ExecSqlAnswered(i, answer)
    \/ \E i \in 1..MaxTables, answer \in ReadAnswers : TableRead(i, answer)
    \/ checkTablesRls



(***************************************************************************)
(* checkMFA.                                                               *)
(***************************************************************************)

\* Boolean(user.factors?.length) || false
\* the array an enumeration can answer
UserLists == SeqsUpTo(({u \in [email : {"", "a@example.com"}, hasFactors : BOOLEAN, factors : SeqsUpTo({"verified", "unverified"}, MaxFactors)] : ~u.hasFactors => u.factors = <<>>}), MaxUsers)

MfaEnabled(user) == user.hasFactors /\ Len(user.factors) # 0

UserMFAStatus(users) ==
    [i \in DOMAIN users |->
        [email |-> IF users[i].email = "" THEN "unknown" ELSE users[i].email,
         mfaEnabled |-> MfaEnabled(users[i])]]

\* every() alone: true of the empty list
allEnabledMut(status) == \A i \in DOMAIN status : status[i].mfaEnabled

allEnabled(status) ==
    Len(status) > 0 /\ \A i \in DOMAIN status : status[i].mfaEnabled

enabledCount(status) == Len(SelectSeq(status, LAMBDA u : u.mfaEnabled))

MfaResult(users) ==
    LET userMFAStatus == UserMFAStatus(users)
    IN  [status |-> IF allEnabled(userMFAStatus) THEN "pass" ELSE "fail",
         details |-> userMFAStatus,
         message |-> IF allEnabled(userMFAStatus)
                     THEN "MFA is enabled for all users"
                     ELSE "MFA is enabled for some out of all users",
         enabled |-> enabledCount(userMFAStatus),
         total |-> Len(userMFAStatus),
         error |-> ""]

\* the outer catch left out: the exception reaches the caller
MfaErrorMut(error) ==
    [status |-> "thrown", details |-> <<>>,
     message |-> "Failed to check MFA status", enabled |-> 0, total |-> 0,
     error |-> error]

MfaError(error) ==
    [status |-> "error", details |-> <<>>,
     message |-> "Failed to check MFA status", enabled |-> 0, total |-> 0,
     error |-> error]

NoMfaVerdict ==
    [status |-> "none", details |-> <<>>, message |-> "", enabled |-> 0,
     total |-> 0, error |-> ""]

MfaOnly == UNCHANGED <<rlsVars, pitrVars, stable, uiVars>>

MfaReturn(result) ==
    /\ mfaPc' = "done"
    /\ mfaVerdict' = result
    /\ UNCHANGED mfaCalls

\* checkMFA up to its first await
checkMFA ==
    /\ mfaPc = "idle"
    /\ mfaPc' = "listUsers"
    /\ mfaCalls' = mfaCalls \cup {"auth.admin.listUsers"}
    /\ UNCHANGED <<mfaUsers, mfaVerdict>>

\* checkMFA called on its own
MfaCalled ==
    /\ checkMFA
    /\ UNCHANGED backend
    /\ MfaOnly

\* auth.admin.listUsers() answered {data, error} with error null
ListUsersAnswer(users) ==
    /\ mfaPc = "listUsers"
    /\ MfaAnswers("auth.admin.listUsers", PlaneAnswer("ok", users))
    /\ mfaUsers' = users
    /\ MfaReturn(MfaResult(users))
    /\ MfaOnly

ListUsersAnswered ==
    /\ mfaPc = "listUsers"
    /\ \E users \in UserLists : ListUsersAnswer(users)

\* auth.admin.listUsers() answered {data, error} with an error
ListUsersError ==
    /\ mfaPc = "listUsers"
    /\ MfaAnswers("auth.admin.listUsers", PlaneAnswer("error", <<>>))
    /\ MfaReturn(MfaError("listUsersError"))
    /\ UNCHANGED mfaUsers
    /\ MfaOnly

\* auth.admin.listUsers() threw: the query of auth.users is issued
ListUsersThrew ==
    /\ mfaPc = "listUsers"
    /\ MfaAnswers("auth.admin.listUsers", PlaneAnswer("throw", <<>>))
    /\ mfaPc' = "authUsers"
    /\ mfaCalls' = mfaCalls \cup {"from(auth.users).select"}
    /\ UNCHANGED <<mfaUsers, mfaVerdict>>
    /\ MfaOnly

\* the query of auth.users answered {data, error} with error null
AuthUsersAnswer(users) ==
    /\ mfaPc = "authUsers"
    /\ MfaAnswers("from(auth.users).select", PlaneAnswer("ok", users))
    /\ mfaUsers' = users
    /\ MfaReturn(MfaResult(users))
    /\ MfaOnly

AuthUsersAnswered ==
    /\ mfaPc = "authUsers"
    /\ \E users \in UserLists : AuthUsersAnswer(users)

AuthUsersError ==
    /\ mfaPc = "authUsers"
    /\ MfaAnswers("from(auth.users).select", PlaneAnswer("error", <<>>))
    /\ MfaReturn(MfaError("listUsersError"))
    /\ UNCHANGED mfaUsers
    /\ MfaOnly

AuthUsersThrew ==
    /\ mfaPc = "authUsers"
    /\ MfaAnswers("from(auth.users).select", PlaneAnswer("throw", <<>>))
    /\ MfaReturn(MfaError("MFA Eror - regenerate keys"))
    /\ UNCHANGED mfaUsers
    /\ MfaOnly

MfaInit ==
    /\ mfaPc = "idle"
    /\ mfaCalls = {}
    /\ mfaUsers = <<>>
    /\ mfaVerdict = NoMfaVerdict

MfaNext ==
    \/ MfaCalled
    \/ ListUsersAnswered
    \/ ListUsersError
    \/ ListUsersThrew
    \/ AuthUsersAnswered
    \/ AuthUsersError
    \/ AuthUsersThrew


(***************************************************************************)
(* checkPITR.  A tier is a string, modelled as its sequence of characters. *)
(***************************************************************************)

LowerOf(c) ==
    CASE c = "F" -> "f"
      [] c = "R" -> "r"
      [] c = "E" -> "e"
      [] OTHER -> c

\* the tier compared as it came
toLowerCaseMut(str) == str

\* String.prototype.toLowerCase
toLowerCase(str) == [i \in DOMAIN str |-> LowerOf(str[i])]

\* subscription.tier.toLowerCase() === 'free'
IsFreeTier(tier) == toLowerCase(tier) = <<"f", "r", "e", "e">>

PitrResult(status, message, keys, tier, error) ==
    [status |-> status, message |-> message, keys |-> keys, tier |-> tier,
     error |-> error]

NoPitrVerdict == PitrResult("none", "", {}, <<>>, "")

UpgradeMessage ==
    "Point in Time Recovery (PITR) is not available on the free tier. Upgrade to Pro plan or higher to enable this feature."

FreeTierResult ==
    PitrResult("fail", UpgradeMessage, {"currentTier", "recommendation", "learnMore"},
               <<"f", "r", "e", "e">>, "")

InvalidPitrUrlResult ==
    PitrResult("error", "Invalid Supabase URL. Unable to extract project reference.",
               {"url"}, <<>>, "")

\* the flag of the answer not looked at
BackupResultMut(pitr_enabled, tier) ==
    PitrResult("pass", "Point in Time Recovery is enabled",
               {"pitr_enabled", "tier", "configuration"}, tier, "")

BackupResult(pitr_enabled, tier) ==
    IF pitr_enabled
    THEN PitrResult("pass", "Point in Time Recovery is enabled",
                    {"pitr_enabled", "tier", "configuration"}, tier, "")
    ELSE PitrResult("fail",
                    "Point in Time Recovery is available but not enabled. You can enable it in your project settings.",
                    {"pitr_enabled", "tier", "configuration"}, tier, "")

NotConfiguredResult(tier, error) ==
    PitrResult("fail",
               "Point in Time Recovery is available but not configured. You can enable it in your project settings.",
               {"tier", "recommendation", "error"}, tier, error)

PitrFailedResult(error) ==
    PitrResult("error",
               "Failed to check PITR status. Please verify your credentials and try again.",
               {"message", "name", "stack"}, <<>>, error)

PitrOnly == UNCHANGED <<rlsVars, mfaVars, stable, uiVars>>

PitrReturn(result) ==
    /\ pitrPc' = "done"
    /\ pitrVerdict' = result
    /\ UNCHANGED pitrCalls

\* how the subscription call ended: none (not yet), nokey, throw, http, or ok
\* with the parsed answer
SubscriptionCall(how, sub) ==
    [call |-> how, hasTier |-> sub.hasTier, tier |-> sub.tier]

SubscriptionThrew(how) ==
    SubscriptionCall(how, [hasTier |-> FALSE, tier |-> <<>>])

\* checkPITR up to its first await; callManagementApi throws without a key,
\* before it fetches
checkPITR(credentials) ==
    /\ pitrPc = "idle"
    /\ pitrIn' = credentials
    /\ UNCHANGED pitrBackup
    /\ IF extractProjectRef(credentials.url) = NoRef
       THEN PitrReturn(InvalidPitrUrlResult) /\ UNCHANGED pitrTier
       ELSE IF ~credentials.managementApiKey
       THEN PitrReturn(FreeTierResult) /\ pitrTier' = SubscriptionThrew("nokey")
       ELSE /\ pitrPc' = "subscription"
            /\ pitrCalls' = pitrCalls \cup {"subscription"}
            /\ UNCHANGED <<pitrVerdict, pitrTier>>

\* checkPITR called on its own
PitrCalled(credentials) ==
    /\ checkPITR(credentials)
    /\ UNCHANGED backend
    /\ PitrOnly

\* the subscription call returned the parsed answer
SubscriptionAnswer(sub) ==
    /\ PitrAnswers("subscription", PlaneAnswer("ok", <<sub>>))
    /\ pitrTier' = SubscriptionCall("ok", sub)
    /\ IF ~sub.hasTier
       THEN PitrReturn(PitrFailedResult("TypeError"))
       ELSE IF IsFreeTier(sub.tier)
       THEN PitrReturn(FreeTierResult)
       ELSE /\ pitrPc' = "backups"
            /\ pitrCalls' = pitrCalls \cup {"database/backups/info"}
            /\ UNCHANGED pitrVerdict
    /\ UNCHANGED <<pitrIn, pitrBackup>>
    /\ PitrOnly

SubscriptionAnswered ==
    /\ pitrPc = "subscription"
    /\ \E sub \in ({sub \in [hasTier : BOOLEAN, tier : (SeqsUpTo({"f", "r", "e", "F", "R", "E", "p"}, MaxTierLen))] : ~sub.hasTier => sub.tier = <<>>}) : SubscriptionAnswer(sub)

\* the subscription call threw (fetch rejected, non-2xx answer, unparsable body)
SubscriptionFailed(how) ==
    /\ pitrPc = "subscription"
    /\ PitrAnswers("subscription", PlaneAnswer(how, <<>>))
    /\ PitrReturn(FreeTierResult)
    /\ pitrTier' = SubscriptionThrew(how)
    /\ UNCHANGED <<pitrIn, pitrBackup>>
    /\ PitrOnly

\* shared state: the flag counted only once checkMFA has returned
BackupAnsweredMut(pitr_enabled) ==
    /\ pitrPc = "backups"
    /\ PitrAnswers("database/backups/info", PlaneAnswer("ok", <<pitr_enabled>>))
    /\ PitrReturn(BackupResult(pitr_enabled /\ mfaPc = "done", pitrTier.tier))
    /\ pitrBackup' = IF pitr_enabled THEN "enabled" ELSE "disabled"
    /\ UNCHANGED <<pitrIn, pitrTier>>
    /\ PitrOnly

BackupAnswered(pitr_enabled) ==
    /\ pitrPc = "backups"
    /\ PitrAnswers("database/backups/info", PlaneAnswer("ok", <<pitr_enabled>>))
    /\ PitrReturn(BackupResult(pitr_enabled, pitrTier.tier))
    /\ pitrBackup' = IF pitr_enabled THEN "enabled" ELSE "disabled"
    /\ UNCHANGED <<pitrIn, pitrTier>>
    /\ PitrOnly

BackupFailed(how) ==
    /\ pitrPc = "backups"
    /\ PitrAnswers("database/backups/info", PlaneAnswer(how, <<>>))
    /\ PitrReturn(NotConfiguredResult(pitrTier.tier, how))
    /\ pitrBackup' = how
    /\ UNCHANGED <<pitrIn, pitrTier>>
    /\ PitrOnly

PitrInit ==
    /\ pitrPc = "idle"
    /\ pitrIn = [url |-> "", managementApiKey |-> FALSE]
    /\ pitrCalls = {}
    /\ pitrTier = (SubscriptionCall("none", [hasTier |-> FALSE, tier |-> <<>>]))
    /\ pitrBackup = "none"
    /\ pitrVerdict = NoPitrVerdict

PitrNext ==
    \/ \E credentials \in [url : Urls, managementApiKey : BOOLEAN] : PitrCalled(credentials)
    \/ SubscriptionAnswered
    \/ \E how \in FetchFailures : SubscriptionFailed(how)
    \/ \E pitr_enabled \in BOOLEAN : BackupAnswered(pitr_enabled)
    \/ \E how \in FetchFailures : BackupFailed(how)

(***************************************************************************)
(* Dashboard.  A key is modelled as its sequence of characters, the text   *)
(* of the tables input as the sequence of its fields between the commas.   *)
(***************************************************************************)
NoCredentials == [present |-> FALSE, url |-> "", serviceRoleKey |-> FALSE]

\* String.prototype.startsWith
startsWith(str, prefix) ==
    Len(str) >= Len(prefix) /\ SubSeq(str, 1, Len(prefix)) = prefix

\* the message validateManagementApiKey sets; empty for a key it accepts
KeyError(key) ==
    IF key = <<>> THEN "Management API Key is required"
    ELSE IF ~startsWith(key, <<"s", "b", "p", "_">>)
    THEN "Management API Key must start with \"sbp_\""
    ELSE ""

validateManagementApiKey(key) == KeyError(key) = ""

\* String.prototype.trim
trim(field) ==
    CASE field = " " -> ""
      [] field = " orders" -> "orders"
      [] OTHER -> field

\* customTables.trim() is the empty string
TextIsBlank(text) == Len(text) = 1 /\ trim(text[1]) = ""

\* customTables.split(',').map(table => table.trim()).filter(nonempty)
SplitTables(text) ==
    SelectSeq([i \in DOMAIN text |-> trim(text[i])], LAMBDA table : table # "")

\* customTablesList of handleRunChecks; <<>> stands for undefined
customTablesList(text) == IF TextIsBlank(text) THEN <<>> ELSE SplitTables(text)

Entry(check, status) == [check |-> check, status |-> status]

\* the entry handleRunChecks logs about the tables before it starts the checks
TablesEntry(text) ==
    IF customTablesList(text) # <<>> THEN Entry("RLS", "info")
    ELSE Entry("RLS", "warning")

INITIAL_RESULTS == [mfa |-> "pending", rls |-> "pending", pitr |-> "pending"]

\* the arguments handleRunChecks passes to checkRLS
RlsArgs ==
    [given |-> customTablesList(customTablesInput) # <<>>,
     customTables |-> customTablesList(customTablesInput),
     managementKey |-> managementApiKey # <<>>,
     url |-> ctxCredentials.url,
     serviceRoleKey |-> ctxCredentials.serviceRoleKey]

\* supabaseCredentials, as checkPITR reads it
PitrArgs ==
    [url |-> ctxCredentials.url, managementApiKey |-> managementApiKey # <<>>]

ChecksIdle == UNCHANGED <<rlsVars, mfaVars, pitrVars>>

\* the reset of the panel done before the two guards
RunRefusedMut ==
    /\ IF ~ctxCredentials.present
       THEN /\ dashError' = "No valid credentials found. Please log in again."
            /\ UNCHANGED managementApiKeyError
       ELSE /\ managementApiKeyError' = KeyError(managementApiKey)
            /\ dashError' =
                  "Please enter a valid Management API Key before running checks"
    /\ evidence' = <<>>
    /\ suggestedFixes' = <<>>
    /\ UNCHANGED <<loading, runPc>>
    /\ ChecksIdle

\* handleRunChecks returning before its try block: without credentials, or
\* with a management key that validateManagementApiKey rejects
RunRefused ==
    /\ IF ~ctxCredentials.present
       THEN /\ dashError' = "No valid credentials found. Please log in again."
            /\ UNCHANGED managementApiKeyError
       ELSE /\ managementApiKeyError' = KeyError(managementApiKey)
            /\ dashError' =
                  "Please enter a valid Management API Key before running checks"
    /\ UNCHANGED <<loading, evidence, suggestedFixes, runPc>>
    /\ ChecksIdle

\* the try block of handleRunChecks up to its await: the reset of the panel,
\* the client, the entry about the tables, and the three checks up to their
\* first await
RunStarted ==
    /\ managementApiKeyError' = ""
    /\ suggestedFixes' = <<>>
    /\ IF ctxCredentials.url = "" \/ ~ctxCredentials.serviceRoleKey
       THEN \* createSupabaseClient throws: catch and finally
            /\ dashError' =
                  "Failed to run checks: Missing required client credentials: url or serviceRoleKey"
            /\ evidence' = <<Entry("System", "error")>>
            /\ loading' = FALSE
            /\ UNCHANGED runPc
            /\ ChecksIdle
       ELSE /\ dashError' = ""
            /\ evidence' = <<TablesEntry(customTablesInput)>>
            /\ loading' = TRUE
            /\ runPc' = "checks"
            /\ checkMFA
            /\ checkRLS(RlsArgs)
            /\ first' = IF RlsArgs = rlsIn THEN first ELSE NoVerdict
            /\ checkPITR(PitrArgs)

\* handleRunChecks up to its await.  The button is disabled while loading;
\* the model follows one run at a time.
handleRunChecks ==
    /\ mounted
    /\ ~loading
    /\ runPc = "idle"
    /\ UNCHANGED <<ctxCredentials, managementApiKey, customTablesInput,
                    dashResults, envVars, opVars, provVars>>
    /\ IF ~ctxCredentials.present \/ ~validateManagementApiKey(managementApiKey)
       THEN RunRefused
       ELSE RunStarted

\* the entries in the order of the array passed to Promise.all
SettledEntriesMut ==
    <<Entry("MFA", mfaVerdict.status),
      Entry("PITR", rlsVerdict.status),
      Entry("RLS", pitrVerdict.status)>>

\* the entries handleRunChecks logs when the three checks have settled
SettledEntries ==
    <<Entry("MFA", mfaVerdict.status),
      Entry("RLS", rlsVerdict.status),
      Entry("PITR", pitrVerdict.status)>>

\* handleRunChecks after Promise.all: the three entries, results, finally.
\* The setters of a component that is no longer mounted change nothing.
RunSettled ==
    /\ runPc = "checks"
    /\ mfaPc = "done" /\ rlsPc = "done" /\ pitrPc = "done"
    /\ IF mounted
       THEN /\ evidence' = evidence \o SettledEntries
            /\ dashResults' = [mfa |-> mfaVerdict.status, rls |-> rlsVerdict.status,
                               pitr |-> pitrVerdict.status]
            /\ loading' = FALSE
       ELSE UNCHANGED <<evidence, dashResults, loading>>
    /\ runPc' = "idle"
    /\ first' = rlsVerdict
    \* the three calls are over
    /\ mfaPc' = "idle" /\ mfaCalls' = {} /\ mfaUsers' = <<>>
    /\ mfaVerdict' = NoMfaVerdict
    /\ rlsPc' = "idle" /\ rlsPath' = "none" /\ rlsCalls' = {}
    /\ apiTables' = <<>> /\ apiPolicies' = <<>>
    /\ tpc' = <<>> /\ tres' = <<>> /\ tread' = <<>> /\ tflag' = <<>>
    /\ rlsVerdict' = NoVerdict
    /\ pitrPc' = "idle" /\ pitrCalls' = {} /\ pitrTier' = (SubscriptionCall("none", [hasTier |-> FALSE, tier |-> <<>>]))
    /\ pitrBackup' = "none" /\ pitrVerdict' = NoPitrVerdict
    /\ UNCHANGED <<rlsIn, pitrIn, envVars, ctxCredentials, managementApiKey,
                    managementApiKeyError, customTablesInput, dashError,
                    suggestedFixes, opVars, provVars>>

\* what no handler but handleRunChecks touches
DashOnly ==
    UNCHANGED <<envVars, managementApiKey, managementApiKeyError, runPc, provVars>>

\* clearing the log also puts the results back to their initial value
clearEvidenceMut(confirmed) ==
    /\ mounted
    /\ evidence # <<>>
    /\ IF confirmed
       THEN evidence' = <<>> /\ suggestedFixes' = <<>> /\ dashResults' = INITIAL_RESULTS
       ELSE UNCHANGED <<evidence, suggestedFixes, dashResults>>
    /\ UNCHANGED <<ctxCredentials, managementApiKey, managementApiKeyError,
                    customTablesInput, loading, dashError, runPc, opVars,
                    provVars>>
    /\ UNCHANGED envVars
    /\ ChecksIdle

clearEvidence(confirmed) ==
    /\ mounted
    /\ evidence # <<>>
    /\ IF confirmed
       THEN evidence' = <<>> /\ suggestedFixes' = <<>>
       ELSE UNCHANGED <<evidence, suggestedFixes>>
    /\ UNCHANGED <<ctxCredentials, managementApiKey, managementApiKeyError,
                    customTablesInput, loading, dashError, dashResults, runPc,
                    opVars, provVars>>
    /\ UNCHANGED envVars
    /\ ChecksIdle

\* handleLogout: clearCredentials(); router.push('/') leads to Unmounted
handleLogout ==
    /\ mounted
    /\ ctxCredentials.present
    /\ ctxCredentials' = NoCredentials
    /\ UNCHANGED <<customTablesInput, loading, dashError, dashResults, evidence,
                    suggestedFixes, opVars>>
    /\ DashOnly
    /\ ChecksIdle

\* the navigation to the login page has finished: without credentials the
\* Dashboard redirects (the mount effect and handleLogout) and is unmounted
Unmounted ==
    /\ mounted
    /\ ~ctxCredentials.present
    /\ mounted' = FALSE
    /\ UNCHANGED <<openAIApiKey, updatePc, analysing>>
    /\ UNCHANGED <<ctxCredentials, customTablesInput, loading, dashError,
                    dashResults, evidence, suggestedFixes>>
    /\ DashOnly
    /\ ChecksIdle

\* tableNames.join(', '), as the fields between the commas
join(tableNames) ==
    [i \in DOMAIN tableNames |->
        IF i = 1 THEN tableNames[i]
        ELSE CASE tableNames[i] = "orders" -> " orders"
               [] OTHER -> tableNames[i]]

\* handleUpdateTablesList up to its first await.  Its button is never
\* disabled; the model follows one update at a time.
handleUpdateTablesList ==
    /\ mounted
    /\ updatePc = "idle"
    /\ Len(evidence) < MaxLog
    /\ UNCHANGED <<ctxCredentials, customTablesInput, dashResults, suggestedFixes,
                    mounted, openAIApiKey, analysing>>
    /\ DashOnly
    /\ ChecksIdle
    /\ IF ~ctxCredentials.present
       THEN /\ dashError' = "No valid credentials found. Please log in again."
            /\ UNCHANGED <<loading, evidence, updatePc>>
       ELSE IF extractProjectRef(ctxCredentials.url) = NoRef
                 \/ ~ctxCredentials.serviceRoleKey
       THEN \* the thrown error, or createClient's: catch and finally
            /\ dashError' = ""
            /\ evidence' = evidence \o <<Entry("RLS", "info"), Entry("RLS", "error")>>
            /\ loading' = FALSE
            /\ UNCHANGED updatePc
       ELSE /\ dashError' = ""
            /\ evidence' = evidence \o <<Entry("RLS", "info")>>
            /\ loading' = TRUE
            /\ updatePc' = "discover"

\* handleUpdateTablesList after the discovery: the three methods only fill
\* tableNames; then the entries, the input, finally
UpdateTablesAnswered(tableNames) ==
    /\ updatePc = "discover"
    /\ updatePc' = "idle"
    /\ IF mounted
       THEN /\ evidence' = evidence \o
                (IF Len(tableNames) = 0 THEN <<Entry("RLS", "error")>>
                 ELSE <<Entry("RLS", "info"), Entry("RLS", "info")>>)
            /\ customTablesInput' =
                  IF Len(tableNames) = 0 THEN customTablesInput ELSE join(tableNames)
            /\ loading' = FALSE
       ELSE UNCHANGED <<evidence, customTablesInput, loading>>
    /\ UNCHANGED <<ctxCredentials, dashError, dashResults, suggestedFixes,
                    mounted, openAIApiKey, analysing>>
    /\ DashOnly
    /\ ChecksIdle

\* the failed checks in the order of Object.entries(results)
FailedChecks ==
    SelectSeq(<<"mfa", "rls", "pitr">>, LAMBDA check : dashResults[check] = "fail")

CheckName(checkType) ==
    CASE checkType = "mfa" -> "MFA" [] checkType = "rls" -> "RLS" [] OTHER -> "PITR"

\* handleAnalyzeIssues up to its first fetch.  Its button is shown with the
\* log; the model follows one analysis at a time.
handleAnalyzeIssues ==
    /\ mounted
    /\ evidence # <<>>
    /\ analysing = <<>>
    /\ (Len(SelectSeq(evidence, LAMBDA e : e.check = "AI Analysis"))) + Len(FailedChecks) <= MaxSuggestions
    /\ UNCHANGED <<ctxCredentials, customTablesInput, loading, dashResults,
                    evidence, mounted, openAIApiKey, updatePc>>
    /\ DashOnly
    /\ ChecksIdle
    /\ IF ~openAIApiKey
       THEN /\ dashError' = "Please provide an OpenAI API key before analyzing issues"
            /\ UNCHANGED <<suggestedFixes, analysing>>
       ELSE IF FailedChecks = <<>>
       THEN /\ dashError' = "No failed checks to analyze"
            /\ UNCHANGED <<suggestedFixes, analysing>>
       ELSE /\ suggestedFixes' =
                  [i \in DOMAIN FailedChecks |->
                      [check |-> CheckName(FailedChecks[i]), suggestion |-> "",
                       loading |-> TRUE]]
            /\ analysing' = [i \in DOMAIN FailedChecks |-> CheckName(FailedChecks[i])]
            /\ UNCHANGED dashError

\* POST of /api/analyze
POST(hasMessage, hasKey, completion) ==
    IF ~hasMessage THEN [ok |-> FALSE, status |-> 400, content |-> ""]
    ELSE IF ~hasKey THEN [ok |-> FALSE, status |-> 500, content |-> ""]
    ELSE IF completion = "throw" THEN [ok |-> FALSE, status |-> 500, content |-> ""]
    ELSE [ok |-> TRUE, status |-> 200,
          content |-> IF completion = "empty" THEN "No suggestion available"
                      ELSE "suggestion"]

\* the fix of the suggestion in hand, filled in
FixesWith(check, suggestion) ==
    [i \in DOMAIN suggestedFixes |->
        IF suggestedFixes[i].check = check
        THEN [suggestedFixes[i] EXCEPT !.suggestion = suggestion, !.loading = FALSE]
        ELSE suggestedFixes[i]]

\* a failed fetch also marks the check it was about as failed to run
AnalyzeAnsweredMut(reached, completion) ==
    /\ analysing # <<>>
    /\ analysing' = Tail(analysing)
    /\ LET response == POST(TRUE, openAIApiKey, completion)
           good == reached /\ response.ok
       IN  IF mounted
           THEN /\ suggestedFixes' =
                      FixesWith(Head(analysing),
                                IF good THEN response.content
                                ELSE IF reached THEN "Error: API responded with status"
                                ELSE "Error: Failed to fetch")
                /\ evidence' = evidence \o
                      <<Entry("AI Analysis", IF good THEN "info" ELSE "error")>>
                /\ dashResults' =
                      IF good THEN dashResults
                      ELSE [check \in DOMAIN dashResults |->
                               IF CheckName(check) = Head(analysing) THEN "error"
                               ELSE dashResults[check]]
           ELSE UNCHANGED <<suggestedFixes, evidence, dashResults>>
    /\ UNCHANGED <<ctxCredentials, customTablesInput, loading, dashError,
                    mounted, openAIApiKey, updatePc>>
    /\ DashOnly
    /\ ChecksIdle

\* the fetch of the suggestion in hand ended: reached = FALSE is a thrown
\* network error, otherwise the route answered
AnalyzeAnswered(reached, completion) ==
    /\ analysing # <<>>
    /\ analysing' = Tail(analysing)
    /\ LET response == POST(TRUE, openAIApiKey, completion)
           good == reached /\ response.ok
       IN  IF mounted
           THEN /\ suggestedFixes' =
                      FixesWith(Head(analysing),
                                IF good THEN response.content
                                ELSE IF reached THEN "Error: API responded with status"
                                ELSE "Error: Failed to fetch")
                /\ evidence' = evidence \o
                      <<Entry("AI Analysis", IF good THEN "info" ELSE "error")>>
           ELSE UNCHANGED <<suggestedFixes, evidence>>
    /\ UNCHANGED <<ctxCredentials, customTablesInput, loading, dashError,
                    dashResults, mounted, openAIApiKey, updatePc>>
    /\ DashOnly
    /\ ChecksIdle

\* the Clear Suggestions button
clearSuggestions ==
    /\ mounted
    /\ suggestedFixes # <<>>
    /\ suggestedFixes' = <<>>
    /\ UNCHANGED <<ctxCredentials, customTablesInput, loading, dashError,
                    dashResults, evidence, opVars>>
    /\ DashOnly
    /\ ChecksIdle

(***************************************************************************)
(* CredentialsProvider.  The item of the session storage is a text: the    *)
(* JSON of credentials, a text that does not parse, or no item.            *)
(***************************************************************************)
NoItem == [kind |-> "none", value |-> NoCredentials]

\* JSON.stringify(credentials)
stringify(credentials) == [kind |-> "json", value |-> credentials]

\* JSON.parse does not throw on the item
Parses(item) == item.kind = "json"

\* JSON.parse(item)
parse(item) == item.value

Update(name, value) == [name |-> name, value |-> value]

ProvOnly ==
    UNCHANGED <<rlsVars, mfaVars, pitrVars, envVars, managementApiKey,
                managementApiKeyError, customTablesInput, loading, dashError,
                dashResults, evidence, suggestedFixes, runPc, opVars>>

\* the first effect: load the credentials from the session storage on mount
LoadEffect ==
    /\ "load" \in effects
    /\ effects' = effects \ {"load"}
    /\ IF storage # NoItem
       THEN IF Parses(storage)
            THEN /\ updates' = updates \o <<Update("credentials", parse(storage)),
                                            Update("isLoaded", TRUE)>>
                 /\ UNCHANGED storage
            ELSE /\ storage' = NoItem
                 /\ updates' = updates \o <<Update("isLoaded", TRUE)>>
       ELSE /\ updates' = updates \o <<Update("isLoaded", TRUE)>>
            /\ UNCHANGED storage
    /\ UNCHANGED <<ctxCredentials, isLoaded, called>>
    /\ ProvOnly

\* the persistence written without its guard on isLoaded
PersistEffectMut ==
    /\ "persist" \in effects
    /\ effects' = effects \ {"persist"}
    /\ storage' = IF ctxCredentials.present THEN stringify(ctxCredentials) ELSE NoItem
    /\ UNCHANGED <<ctxCredentials, isLoaded, updates, called>>
    /\ ProvOnly

\* the second effect: update the session storage when credentials change.
\* It reads the state of the render that scheduled it; the effects of a
\* render have run before the next render starts.
PersistEffect ==
    /\ "persist" \in effects
    /\ effects' = effects \ {"persist"}
    /\ storage' = IF ~isLoaded THEN storage
                  ELSE IF ctxCredentials.present THEN stringify(ctxCredentials)
                  ELSE NoItem
    /\ UNCHANGED <<ctxCredentials, isLoaded, updates, called>>
    /\ ProvOnly

\* the state after the first n updates
Rendered(n) ==
    LET credentialUpdates ==
            SelectSeq(SubSeq(updates, 1, n), LAMBDA u : u.name = "credentials")
        loadedUpdates ==
            SelectSeq(SubSeq(updates, 1, n), LAMBDA u : u.name = "isLoaded")
    IN  [credentials |-> IF credentialUpdates = <<>> THEN ctxCredentials
                         ELSE credentialUpdates[Len(credentialUpdates)].value,
         isLoaded |-> IF loadedUpdates = <<>> THEN isLoaded ELSE TRUE]

\* a render of the provider: React applies the updates that are due, all
\* of them or the first ones, and schedules the persistence effect when one
\* of its dependencies has changed
Render(n) ==
    /\ effects = {}
    /\ n \in 1..Len(updates)
    /\ ctxCredentials' = Rendered(n).credentials
    /\ isLoaded' = Rendered(n).isLoaded
    /\ updates' = SubSeq(updates, n + 1, Len(updates))
    /\ effects' = IF Rendered(n).credentials # ctxCredentials
                     \/ Rendered(n).isLoaded # isLoaded
                  THEN {"persist"} ELSE {}
    /\ UNCHANGED <<storage, called>>
    /\ ProvOnly

\* setCredentials(newCredentials); clearCredentials() is the call with null
setCredentials(newCredentials) ==
    /\ Len(updates) < MaxUpdates
    /\ updates' = updates \o <<Update("credentials", newCredentials)>>
    /\ called' = TRUE
    /\ UNCHANGED <<ctxCredentials, isLoaded, storage, effects>>
    /\ ProvOnly

clearCredentials == setCredentials(NoCredentials)

\* the provider after its mount effects, as the Dashboard finds it
ProvLoaded ==
    /\ isLoaded = TRUE
    /\ storage = IF ctxCredentials.present THEN stringify(ctxCredentials) ELSE NoItem
    /\ effects = {}
    /\ updates = <<>>
    /\ called = FALSE

\* the panel as it is mounted, with what the operator has typed into the
\* two inputs
DashState(credentials, key, text, openAI) ==
    /\ ctxCredentials = credentials
    /\ managementApiKey = key
    /\ managementApiKeyError = ""
    /\ customTablesInput = text
    /\ loading = FALSE
    /\ dashError = ""
    /\ dashResults = INITIAL_RESULTS
    /\ evidence = <<>>
    /\ suggestedFixes = <<>>
    /\ runPc = "idle"
    /\ mounted = TRUE
    /\ openAIApiKey = openAI
    /\ updatePc = "idle"
    /\ analysing = <<>>
    /\ ProvLoaded

DashInit == DashState(NoCredentials, <<>>, <<"">>, FALSE)

(***************************************************************************)
(* The specifications: one check running alone.                            *)
(***************************************************************************)
Init ==
    RlsInit /\ MfaInit /\ PitrInit /\ DashInit /\ stable = {} /\ backend = NoBackend

SpecRLS == Init /\ [][RlsNext]_vars

SpecMFA == Init /\ [][MfaNext]_vars

SpecPITR == Init /\ [][PitrNext]_vars

(***************************************************************************)
(* checkRLS called a second time with the arguments of the first call,     *)
(* against a backend whose answers are unchanged.                          *)
(***************************************************************************)

TwiceApiTables ==
    {<<>>,
     <<[name |-> "orders", schema |-> "public", type |-> "table"]>>,
     <<[name |-> "profiles", schema |-> "public", type |-> "view"]>>,
     <<[name |-> "profiles", schema |-> "public", type |-> "table"],
       [name |-> "orders", schema |-> "public", type |-> "table"]>>}

\* the first call has returned; its verdict is kept and the second call is due
RunAgain ==
    /\ rlsPc = "done"
    /\ first.status = "none"
    /\ first' = rlsVerdict
    /\ rlsPc' = "idle"
    /\ rlsPath' = "none"
    /\ rlsCalls' = {}
    /\ apiTables' = <<>>
    /\ apiPolicies' = <<>>
    /\ tpc' = <<>>
    /\ tres' = <<>>
    /\ tread' = <<>>
    /\ tflag' = <<>>
    /\ rlsVerdict' = NoVerdict
    /\ UNCHANGED <<rlsIn, stable, backend, mfaVars, pitrVars, uiVars>>

TwiceNext ==
    \/ first.status = "none" /\ \E in \in ({in \in RlsInputs : in.given /\ in.customTables \in {<<"orders">>, <<"orders", "profiles">>, <<"profiles", "profiles">>}}) : RlsCalled(in)
    \/ RunAgain
    \/ first.status # "none" /\ RlsCalled(rlsIn)
    \/ rlsPc = "mgmtTables" /\ \E tables \in TwiceApiTables : TablesAnswer(tables)
    \/ \E how \in FetchFailures : TablesFetchFailed(how)
    \/ rlsPc = "mgmtPolicies" /\ \E policies \in {<<>>, <<[table |-> "orders"]>>, <<[table |-> "profiles"]>>} : PoliciesAnswer(policies)
    \/ \E how \in FetchFailures : PoliciesFetchFailed(how)
    \/ \E i \in 1..MaxTables, answer \in {"row", "error", "throw"} :
          PgTablesAnswered(i, answer)
    \/ \E i \in 1..MaxTables, answer \in CatalogAnswers : PgClassAnswered(i, answer)
    \/ \E i \in 1..MaxTables, answer \in SqlAnswers : ExecSqlAnswered(i, answer)
    \/ \E i \in 1..MaxTables, answer \in ReadAnswers : TableRead(i, answer)
    \/ checkTablesRls

InitStable ==
    /\ RlsInit /\ MfaInit /\ PitrInit /\ DashInit
    /\ stable = {"rls"}
    /\ backend = NoBackend

SpecTwice == InitStable /\ [][TwiceNext]_vars

(***************************************************************************)
(* The Dashboard running the checks: handleRunChecks, the three checks it  *)
(* starts with their answers arriving in any order, and the operator       *)
(* clearing the log.  The answers are drawn from representative sets, the  *)
(* inputs are as the operator left them.  The backend is stable for one of *)
(* the checks, so that a later run meets the same answers for that check   *)
(* while the other two may end differently.                                *)
(***************************************************************************)

RunUserLists ==
    {<<>>,
     <<[email |-> "a@example.com", hasFactors |-> TRUE, factors |-> <<"verified">>]>>}

RunNext ==
    \/ handleRunChecks
    \/ RunSettled
    \/ \E confirmed \in BOOLEAN : clearEvidence(confirmed)
    \/ \E users \in RunUserLists : ListUsersAnswer(users)
    \/ ListUsersError
    \/ ListUsersThrew
    \/ \E users \in RunUserLists : AuthUsersAnswer(users)
    \/ AuthUsersError
    \/ AuthUsersThrew
    \/ rlsPc = "mgmtTables" /\ \E tables \in TwiceApiTables : TablesAnswer(tables)
    \/ TablesFetchFailed("http")
    \/ rlsPc = "mgmtPolicies" /\ \E policies \in {<<>>, <<[table |-> "orders"]>>, <<[table |-> "profiles"]>>} : PoliciesAnswer(policies)
    \/ PoliciesFetchFailed("http")
    \/ \E i \in 1..MaxTables, answer \in {"row", "error"} : PgTablesAnswered(i, answer)
    \/ \E i \in 1..MaxTables, answer \in {"on", "off", "error"} :
          PgClassAnswered(i, answer)
    \/ \E i \in 1..MaxTables, answer \in {"on", "error"} : ExecSqlAnswered(i, answer)
    \/ \E i \in 1..MaxTables, answer \in {"rows", "throw"} : TableRead(i, answer)
    \/ checkTablesRls
    \/ pitrPc = "subscription" /\ \E sub \in {[hasTier |-> FALSE, tier |-> <<>>], [hasTier |-> TRUE, tier |-> <<"F", "r", "e", "e">>], [hasTier |-> TRUE, tier |-> <<"p", "r", "e">>]} : SubscriptionAnswer(sub)
    \/ SubscriptionFailed("http")
    \/ \E pitr_enabled \in BOOLEAN : BackupAnswered(pitr_enabled)
    \/ BackupFailed("http")

InitRun ==
    /\ RlsInit /\ MfaInit /\ PitrInit
    /\ \E credentials \in ({NoCredentials} \cup [present : {TRUE}, url : Urls, serviceRoleKey : BOOLEAN]), key \in {<<>>, <<"s", "b", "p", "_", "1">>, <<"s", "b", "p">>, <<"k", "e", "y">>}, text \in {<<"">>, <<" ", " ">>, <<" orders", " ">>} :
          DashState(credentials, key, text, FALSE)
    /\ stable \in {{check} : check \in {"mfa", "rls", "pitr"}}
    /\ backend = NoBackend

SpecRun == InitRun /\ [][RunNext]_vars

(***************************************************************************)
(* The Dashboard with the handlers that share loading, the log and the     *)
(* credentials: runs of the checks, the update of the tables list, the     *)
(* clearing of the log, and the logout.  The Management API answers the    *)
(* checks; the answers are drawn from representative sets.                 *)
(***************************************************************************)

\* the answers of the Management API and of the enumeration of the users
DashAnswers ==
    \/ \E users \in RunUserLists : ListUsersAnswer(users)
    \/ ListUsersError
    \/ rlsPc = "mgmtTables" /\ \E tables \in {<<[name |-> "orders", schema |-> "public", type |-> "table"]>>} : TablesAnswer(tables)
    \/ rlsPc = "mgmtPolicies" /\ \E policies \in {<<>>, <<[table |-> "orders"]>>} : PoliciesAnswer(policies)
    \/ pitrPc = "subscription" /\ \E sub \in {[hasTier |-> FALSE, tier |-> <<>>], [hasTier |-> TRUE, tier |-> <<"F", "r", "e", "e">>]} : SubscriptionAnswer(sub)

DashNext ==
    \/ handleRunChecks
    \/ RunSettled
    \/ \E confirmed \in BOOLEAN : clearEvidence(confirmed)
    \/ handleLogout
    \/ Unmounted
    \/ handleUpdateTablesList
    \/ \E tableNames \in {<<>>, <<"orders">>} : UpdateTablesAnswered(tableNames)
    \/ DashAnswers

InitDash ==
    /\ RlsInit /\ MfaInit /\ PitrInit
    /\ \E credentials \in {NoCredentials, [present |-> TRUE, url |-> SupabaseUrl, serviceRoleKey |-> FALSE], [present |-> TRUE, url |-> SupabaseUrl, serviceRoleKey |-> TRUE]}, key \in {<<>>, <<"k", "e", "y">>, <<"s", "b", "p", "_", "1">>}, text \in {<<"">>, <<" orders", " ">>} :
          DashState(credentials, key, text, FALSE)
    /\ stable = {}
    /\ backend = NoBackend

SpecDash == InitDash /\ [][DashNext]_vars

(***************************************************************************)
(* The Dashboard analysing the failed checks: runs of the checks, the      *)
(* analysis with the answers of /api/analyze, and the clearing of the log  *)
(* and of the suggestions.                                                 *)
(***************************************************************************)
AnalyzeNext ==
    \/ handleRunChecks
    \/ RunSettled
    \/ clearEvidence(TRUE)
    \/ clearSuggestions
    \/ handleAnalyzeIssues
    \/ \E reached \in BOOLEAN, completion \in {"text", "empty", "throw"} :
          AnalyzeAnswered(reached, completion)
    \/ DashAnswers

InitAnalyze ==
    /\ RlsInit /\ MfaInit /\ PitrInit
    /\ \E text \in {<<"">>, <<" orders", " ">>}, openAI \in BOOLEAN :
          DashState([present |-> TRUE, url |-> SupabaseUrl, serviceRoleKey |-> TRUE],
                    <<"s", "b", "p", "_", "1">>, text, openAI)
    /\ stable = {}
    /\ backend = NoBackend

SpecAnalyze == InitAnalyze /\ [][AnalyzeNext]_vars

(***************************************************************************)
(* The CredentialsProvider from its first render on: the two mount effects *)
(* in either order, the renders, and calls of setCredentials and           *)
(* clearCredentials at any time.                                           *)
(***************************************************************************)

ProvNext ==
    \/ LoadEffect
    \/ PersistEffect
    \/ \E n \in 1..MaxUpdates + 2 : Render(n)
    \/ setCredentials([present |-> TRUE, url |-> "http://localhost:54321", serviceRoleKey |-> TRUE])
    \/ clearCredentials

InitProv ==
    /\ RlsInit /\ MfaInit /\ PitrInit
    /\ stable = {} /\ backend = NoBackend
    /\ ctxCredentials = NoCredentials
    /\ managementApiKey = <<>>
    /\ managementApiKeyError = ""
    /\ customTablesInput = <<"">>
    /\ loading = FALSE
    /\ dashError = ""
    /\ dashResults = INITIAL_RESULTS
    /\ evidence = <<>>
    /\ suggestedFixes = <<>>
    /\ runPc = "idle"
    /\ mounted = TRUE
    /\ openAIApiKey = FALSE
    /\ updatePc = "idle"
    /\ analysing = <<>>
    /\ isLoaded = FALSE
    /\ storage \in {NoItem, [kind |-> "text", value |-> NoCredentials], stringify([present |-> TRUE, url |-> SupabaseUrl, serviceRoleKey |-> TRUE])}
    /\ effects = {"load", "persist"}
    /\ updates = <<>>
    /\ called = FALSE

SpecProv == InitProv /\ [][ProvNext]_vars

\* any one of the three check functions invoked on its own
ChecksNext ==
    \/ mfaPc = "idle" /\ pitrPc = "idle" /\ RlsNext
    \/ rlsPc = "idle" /\ pitrPc = "idle" /\ MfaNext
    \/ rlsPc = "idle" /\ mfaPc = "idle" /\ PitrNext

SpecChecks == Init /\ [][ChecksNext]_vars


(***************************************************************************)
(* Properties of checkRLS.                                                 *)
(***************************************************************************)
DataPlaneCalls == {c \in rlsCalls : c.ep \in {"pg_tables", "pg_class", "exec_sql"} \cup {ReadEp}}

\* the run went through the per-table probes and checkTablesRls aggregated them
DirectDone == rlsPc = "done" /\ tpc # <<>>

\* the run ended in the verdict computed from the policy list
PolicyDone == rlsPc = "done" /\ rlsPath = "policies"

ResultTables == Range(TableOf(rlsVerdict.table_results))

AllNamed(results, names) ==
    \A i \in DOMAIN results : ~results[i].rlsEnabled => Includes(names, results[i].table)

\* C1: when the probes have decided the tables (by the policy list, or by the
\* per-table probes), the status is pass iff every table was decided enabled by
\* its probe, and fail otherwise; every table decided not enabled is a
\* table_results entry with rlsEnabled = false and is named in the message.
C1_PassIffAllEnabled ==
    /\ DirectDone =>
          /\ rlsVerdict.status \in {"pass", "fail"}
          /\ rlsVerdict.status = "pass" <=> \A i \in DOMAIN tres : ~tres[i].rlsDisabled
          /\ "table_results" \in rlsVerdict.keys
          /\ Len(rlsVerdict.table_results) = Len(tres)
          /\ \A i \in DOMAIN tres :
                /\ rlsVerdict.table_results[i].table = tres[i].table
                /\ rlsVerdict.table_results[i].rlsEnabled = ~tres[i].rlsDisabled
          /\ AllNamed(rlsVerdict.table_results, rlsVerdict.messageTables)
    /\ PolicyDone =>
          /\ rlsVerdict.status \in {"pass", "fail"}
          /\ rlsVerdict.status = "pass" <=>
                \A i \in DOMAIN rlsVerdict.table_results :
                    \E j \in DOMAIN apiPolicies :
                        apiPolicies[j].table = rlsVerdict.table_results[i].table
          /\ "table_results" \in rlsVerdict.keys
          /\ \A i \in DOMAIN rlsVerdict.table_results :
                rlsVerdict.table_results[i].rlsEnabled <=>
                    \E j \in DOMAIN apiPolicies :
                        apiPolicies[j].table = rlsVerdict.table_results[i].table
          /\ AllNamed(rlsVerdict.table_results, rlsVerdict.messageTables)

\* a direct-query run over two tables, one decided enabled and one not: fail
C1_Witness ==
    /\ DirectDone
    /\ Len(tres) = 2
    /\ ~tres[1].rlsDisabled
    /\ tres[2].rlsDisabled
    /\ rlsVerdict.status = "fail"
    /\ rlsVerdict.messageTables = <<tres[2].table>>

\* C2: a table whose catalog probes failed and whose one-row read was refused
\* with permission denied is reported rlsDisabled = false; with no key, tables
\* [orders, profiles], orders readable and profiles denied, the verdict is fail
\* with orders rlsEnabled = false and profiles rlsEnabled = true.
C2_DeniedReadMeansEnabled ==
    /\ \A i \in DOMAIN tread :
          (tpc[i] = "done" /\ tread[i] = "denied") => ~tres[i].rlsDisabled
    /\ ( /\ DirectDone
         /\ ~rlsIn.managementKey
         /\ rlsIn.customTables = <<"orders", "profiles">>
         /\ tread = <<"rows", "denied">> ) =>
          /\ rlsVerdict.status = "fail"
          /\ TableOf(rlsVerdict.table_results) = <<"orders", "profiles">>
          /\ ~rlsVerdict.table_results[1].rlsEnabled
          /\ rlsVerdict.table_results[2].rlsEnabled

\* C3: a table whose catalog probes failed and whose one-row read succeeded, or
\* failed with an error other than permission denied, is reported
\* rlsDisabled = true, and the tag of a successful read differs from the tag of
\* a read that failed with another error.
C3_ReadableOrOtherErrorMeansDisabled ==
    /\ \A i \in DOMAIN tread :
          (tpc[i] = "done" /\ tread[i] \in {"rows", "error", "throw"}) =>
              tres[i].rlsDisabled
    /\ \A i, j \in DOMAIN tread :
          ( /\ tpc[i] = "done" /\ tread[i] = "rows"
            /\ tpc[j] = "done" /\ tread[j] \in {"error", "throw"} ) =>
              tres[i].errorMessage # tres[j].errorMessage

\* C4: a call with a missing or an empty table list returns status error
\* (no tables) and has issued no request, whatever the credentials.
C4_NoTablesNoCalls ==
    (rlsPc # "idle" /\ (~rlsIn.given \/ rlsIn.customTables = <<>>)) =>
        /\ rlsPc = "done"
        /\ rlsVerdict.status = "error"
        /\ rlsVerdict.message = NoTablesResult.message
        /\ rlsCalls = {}

\* an empty list given with a control-plane key and a usable client
C4_Witness ==
    /\ rlsPc = "done"
    /\ rlsIn.given
    /\ rlsIn.customTables = <<>>
    /\ rlsIn.managementKey
    /\ rlsIn.url = SupabaseUrl
    /\ rlsIn.serviceRoleKey
    /\ rlsVerdict.status = "error"

\* C5: once the policy list has been fetched, the run issues no catalog query
\* and no row read and starts no per-table probe, also when tables come out as
\* not enabled.
C5_NoEscalationAfterPolicies ==
    rlsPath = "policies" =>
        /\ DataPlaneCalls = {}
        /\ tpc = <<>>
        /\ rlsPc = "done"

\* the policy list decided a table as not enabled and the run ended there
C5_Witness ==
    /\ PolicyDone
    /\ rlsVerdict.status = "fail"
    /\ Len(rlsVerdict.table_results) = 2
    /\ rlsVerdict.messageTables = <<"profiles">>

\* the client carries a project URL and a key that direct queries can use
UsableClient == extractProjectRef(rlsIn.url) # NoRef /\ rlsIn.serviceRoleKey

\* no public table of the control plane's answer is in the requested list
EmptyIntersection ==
    \A i \in DOMAIN apiTables :
        ~( /\ apiTables[i].schema = "public"
           /\ apiTables[i].type = "table"
           /\ apiTables[i].name \in Range(rlsIn.customTables) )

TablesAnswered == rlsPath \in {"noneFound", "policies"} \/ rlsPc = "mgmtPolicies"

ProbedDirectly ==
    /\ rlsPc \in {"direct", "done"}
    /\ FirstProbes(rlsIn.customTables) \subseteq rlsCalls
    /\ Len(tpc) = Len(rlsIn.customTables)

FetchFailedPaths ==
    {"tables:throw", "tables:http", "policies:throw", "policies:http"}

\* C6 as stated: after an HTTP error of the tables or policies endpoint, with
\* no control-plane key, and with an empty intersection of the control plane's
\* tables and the requested ones, the run probes the requested tables directly.
C6_ThreeCasesFallBack ==
    /\ (rlsPath \in FetchFailedPaths /\ UsableClient) => ProbedDirectly
    /\ (rlsPath = "noKey" /\ UsableClient) => ProbedDirectly
    /\ (TablesAnswered /\ EmptyIntersection /\ rlsPc = "done" /\ UsableClient) =>
          ProbedDirectly

\* C6 amended: the first two cases fall back; an empty intersection ends the
\* run with status error, the requested and available tables in details, and
\* no direct query.
C6_FallbackCases ==
    /\ (rlsPath \in FetchFailedPaths /\ UsableClient) => ProbedDirectly
    /\ (rlsPath = "noKey" /\ UsableClient) => ProbedDirectly
    /\ (TablesAnswered /\ EmptyIntersection) =>
          /\ rlsPc = "done"
          /\ rlsVerdict.status = "error"
          /\ rlsVerdict.keys = {"tables_requested", "tables_available"}
          /\ rlsVerdict.tables_requested = rlsIn.customTables
          /\ DataPlaneCalls = {}

\* the control plane lists a table, but none of the requested ones
C6_Witness ==
    /\ rlsPc = "done"
    /\ TablesAnswered
    /\ EmptyIntersection
    /\ apiTables # <<>>
    /\ rlsVerdict.tables_available # <<>>

\* C7: a pass or fail verdict names every requested table in table_results,
\* and only requested tables, except for tables that details reports as not
\* found.
C7_OneResultPerRequestedTable ==
    (rlsPc = "done" /\ rlsVerdict.status \in {"pass", "fail"}) =>
        /\ ResultTables \subseteq Range(rlsIn.customTables)
        /\ \A t \in Range(rlsIn.customTables) :
              \/ t \in ResultTables
              \/ /\ "tables_requested" \in rlsVerdict.keys
                 /\ Includes(rlsVerdict.tables_requested, t)

\* C8: when the resolution of a table ended in an exception (the last probe of
\* the table threw), the verdict is error, carries the exception in details and
\* keeps the results of the other tables.
C8_ExceptionDegradesToError ==
    (DirectDone /\ \E i \in DOMAIN tread : tread[i] = "throw") =>
        /\ rlsVerdict.status = "error"
        /\ "error" \in rlsVerdict.keys
        /\ "table_results" \in rlsVerdict.keys

(***************************************************************************)
(* Properties of checkMFA.                                                 *)
(***************************************************************************)
\* C9: when the enumeration succeeded, the status is pass iff there is at
\* least one account and every account has a factor; zero accounts give fail;
\* details has one entry per account.
C9_PassIffAllAccountsEnabled ==
    (mfaPc = "done" /\ mfaVerdict.status # "error") =>
        /\ mfaVerdict.status \in {"pass", "fail"}
        /\ mfaVerdict.status = "pass" <=>
              /\ Len(mfaUsers) > 0
              /\ \A i \in DOMAIN mfaUsers :
                    mfaUsers[i].hasFactors /\ Len(mfaUsers[i].factors) > 0
        /\ Len(mfaUsers) = 0 => mfaVerdict.status = "fail"
        /\ Len(mfaVerdict.details) = Len(mfaUsers)
        /\ \A i \in DOMAIN mfaUsers :
              mfaVerdict.details[i].mfaEnabled <=>
                  (mfaUsers[i].hasFactors /\ Len(mfaUsers[i].factors) > 0)

\* the administrative listing answered with no accounts: fail
C9_Witness ==
    /\ mfaPc = "done"
    /\ mfaCalls = {"auth.admin.listUsers"}
    /\ mfaUsers = <<>>
    /\ mfaVerdict.status = "fail"

(***************************************************************************)
(* Properties of checkPITR.                                                *)
(***************************************************************************)
\* "free" in any mix of cases
FreeInAnyCase(tier) ==
    /\ Len(tier) = 4
    /\ tier[1] \in {"f", "F"}
    /\ tier[2] \in {"r", "R"}
    /\ tier[3] \in {"e", "E"}
    /\ tier[4] \in {"e", "E"}

\* C10: when the subscription call failed, or answered the free tier in any
\* mix of cases, the verdict is fail with the upgrade message and the
\* backup-info endpoint has not been called.
C10_FreeTierSkipsBackupInfo ==
    ( \/ pitrTier.call \in {"nokey", "throw", "http"}
      \/ pitrTier.call = "ok" /\ pitrTier.hasTier /\ FreeInAnyCase(pitrTier.tier) ) =>
        /\ pitrPc = "done"
        /\ pitrVerdict.status = "fail"
        /\ pitrVerdict.message = UpgradeMessage
        /\ "database/backups/info" \notin pitrCalls

\* the subscription answered "Free"
C10_Witness ==
    /\ pitrPc = "done"
    /\ pitrTier.call = "ok"
    /\ pitrTier.tier = <<"F", "r", "e", "e">>
    /\ pitrVerdict.status = "fail"
    /\ pitrCalls = {"subscription"}

\* C11: when the subscription call answered a tier other than free, the
\* verdict is pass exactly when the backup-info call answered with
\* pitr_enabled true; with pitr_enabled false it is fail (available but not
\* enabled); when the backup-info call failed it is fail (available but not
\* configured); it is never error.
C11_BackupInfoDecides ==
    ( /\ pitrPc = "done"
      /\ pitrTier.call = "ok"
      /\ pitrTier.hasTier
      /\ ~FreeInAnyCase(pitrTier.tier) ) =>
        /\ pitrVerdict.status = "pass" <=> pitrBackup = "enabled"
        /\ pitrBackup = "disabled" =>
              /\ pitrVerdict.status = "fail"
              /\ pitrVerdict.message =
                    "Point in Time Recovery is available but not enabled. You can enable it in your project settings."
        /\ pitrBackup \in FetchFailures =>
              /\ pitrVerdict.status = "fail"
              /\ pitrVerdict.message =
                    "Point in Time Recovery is available but not configured. You can enable it in your project settings."
        /\ pitrBackup \in {"enabled", "disabled"} \cup FetchFailures
        /\ pitrVerdict.status # "error"

\* a paid tier whose backup-info call answered a non-2xx status
C11_Witness ==
    /\ pitrPc = "done"
    /\ pitrTier.call = "ok"
    /\ pitrTier.tier = <<"p", "r", "e">>
    /\ pitrBackup = "http"
    /\ pitrVerdict.status = "fail"
    /\ pitrCalls = {"subscription", "database/backups/info"}

\* C12: without a control-plane key checkPITR returns status error, and no
\* request has been issued.
C12_MissingKeyIsError ==
    (pitrPc = "done" /\ ~pitrIn.managementApiKey) =>
        /\ pitrVerdict.status = "error"
        /\ pitrCalls = {}

\* C15: under the control-plane policy probe a checked table is reported
\* rlsEnabled = true exactly when at least one policy of the fetched policy
\* list names it; nothing else about the table enters its result, and the
\* checked tables are the public tables of the fetched list that were
\* requested.
C15_EnabledIffNamedByPolicy ==
    PolicyDone =>
        /\ \A i \in DOMAIN rlsVerdict.table_results :
              /\ rlsVerdict.table_results[i].rlsEnabled <=>
                    \E j \in DOMAIN apiPolicies :
                        apiPolicies[j].table = rlsVerdict.table_results[i].table
              /\ rlsVerdict.table_results[i].error = "null"
        /\ ResultTables =
              {apiTables[k].name : k \in {k \in DOMAIN apiTables :
                  /\ apiTables[k].schema = "public"
                  /\ apiTables[k].type = "table"
                  /\ Includes(rlsIn.customTables, apiTables[k].name)}}

\* two checked tables, one of them named by both policies of the list, the
\* other by no policy
C15_Witness ==
    /\ PolicyDone
    /\ Len(apiPolicies) = 2
    /\ apiPolicies[1].table = "profiles"
    /\ apiPolicies[2].table = "profiles"
    /\ Len(rlsVerdict.table_results) = 2
    /\ rlsVerdict.table_results[1] =
          [table |-> "orders", rlsEnabled |-> FALSE, error |-> "null"]
    /\ rlsVerdict.table_results[2] =
          [table |-> "profiles", rlsEnabled |-> TRUE, error |-> "null"]

\* the one-row read of the i-th list element has been issued
ReadIssued(i) == tpc[i] = "select" \/ tread[i] # "none"

\* C16: on the direct-query path the one-row read of a table is issued
\* exactly when the catalog probes of that table ended without a flag.  When
\* a catalog probe returned the flag, the table is done with
\* rlsDisabled = NOT flag, also for a flag that says off, and no read of it
\* is issued.
C16_ReadOnlyAfterCatalogFailed ==
    \A i \in DOMAIN tpc :
        /\ ReadIssued(i) <=> tflag[i] = "failed"
        /\ tflag[i] \in {"none", "on", "off", "failed"}
        /\ tflag[i] \in {"on", "off"} =>
              /\ tpc[i] = "done"
              /\ tres[i].rlsDisabled = (tflag[i] = "off")
              /\ tres[i].errorMessage = "undefined"
              /\ tread[i] = "none"

\* the catalog said off for orders, which was not read; the catalog probes
\* of profiles failed, and profiles was read
C16_Witness ==
    /\ DirectDone
    /\ rlsIn.customTables = <<"orders", "profiles">>
    /\ tflag = <<"off", "failed">>
    /\ tres[1].rlsDisabled
    /\ tread = <<"none", "rows">>

\* the table results of a verdict as a set: the tables and their rlsEnabled
ResultSet(verdict) ==
    {[table |-> verdict.table_results[i].table,
      rlsEnabled |-> verdict.table_results[i].rlsEnabled] :
        i \in DOMAIN verdict.table_results}

\* C17: a second call of checkRLS with the same table list and credentials,
\* against a backend that answers every request as it did before, returns
\* the status of the first call and the same set of table results (same
\* tables, same rlsEnabled values), whatever the order in which the answers
\* of the per-table probes arrive in either call.
C17_SecondRunSameResults ==
    (first.status # "none" /\ rlsPc = "done") =>
        /\ rlsVerdict.status = first.status
        /\ ResultSet(rlsVerdict) = ResultSet(first)

\* the second call also ended in fail on the direct path, after the reads of
\* both tables
C17_Witness ==
    /\ first.status = "fail"
    /\ DirectDone
    /\ rlsIn.customTables = <<"orders", "profiles">>
    /\ tread = <<"rows", "denied">>
    /\ rlsVerdict.status = "fail"
    /\ Len(rlsVerdict.table_results) = 2

(***************************************************************************)
(* Properties of the three check functions as a boundary.                  *)
(***************************************************************************)
Statuses == {"pass", "fail", "error"}

\* C13: whatever the client and the network calls return or throw and
\* whatever the credentials are, each of checkMFA, checkRLS and checkPITR is
\* either still awaiting an answer or has returned a verdict whose status
\* is pass, fail or error; no exception reaches the caller.
C13_NoExceptionEscapes ==
    /\ mfaPc \in {"idle", "listUsers", "authUsers", "done"}
    /\ rlsPc \in {"idle", "mgmtTables", "mgmtPolicies", "direct", "done"}
    /\ pitrPc \in {"idle", "subscription", "backups", "done"}
    /\ mfaPc = "done" <=> mfaVerdict.status \in Statuses
    /\ rlsPc = "done" <=> rlsVerdict.status \in Statuses
    /\ pitrPc = "done" <=> pitrVerdict.status \in Statuses
    /\ mfaPc # "done" => mfaVerdict = NoMfaVerdict
    /\ rlsPc # "done" => rlsVerdict = NoVerdict
    /\ pitrPc # "done" => pitrVerdict = NoPitrVerdict

\* both enumerations of checkMFA threw and the run ended in a verdict
C13_Witness ==
    /\ mfaPc = "done"
    /\ mfaCalls = {"auth.admin.listUsers", "from(auth.users).select"}
    /\ mfaVerdict.status = "error"
    /\ mfaVerdict.error = "MFA Eror - regenerate keys"

\* C14: checkMFA issues the query of auth.users whenever the administrative
\* listing is unavailable, so a verdict of status error is returned only
\* after both calls were made and failed.
C14_ErrorOnlyAfterBothFailed ==
    (mfaPc = "done" /\ mfaVerdict.status = "error") =>
        mfaCalls = {"auth.admin.listUsers", "from(auth.users).select"}

(***************************************************************************)
(* Properties of the Dashboard.                                            *)
(***************************************************************************)
\* the step in which handleRunChecks starts the three checks
Launches == runPc = "idle" /\ runPc' = "checks"

\* the step in which the three checks of a run have settled
Settles == runPc = "checks" /\ runPc' = "idle"

\* C18: the three checks of a run are in flight together and independent.
\* An answer to one check changes nothing of the other two; and when a run
\* settles, the check whose backend answers as in the run before returns
\* the status (for checkRLS also the table results) it returned in the run
\* before, whatever the order of the answers and whatever the other two
\* checks returned in either run.
C18_VerdictsIndependent ==
    [][ /\ Settles =>
              /\ ("mfa" \in stable /\ dashResults.mfa # "pending") =>
                    mfaVerdict.status = dashResults.mfa
              /\ ("pitr" \in stable /\ dashResults.pitr # "pending") =>
                    pitrVerdict.status = dashResults.pitr
              /\ ("rls" \in stable /\ first.status # "none") =>
                    /\ rlsVerdict.status = first.status
                    /\ ResultSet(rlsVerdict) = ResultSet(first)
        /\ (~Launches /\ ~Settles) =>
              /\ mfaVars' # mfaVars => UNCHANGED <<rlsVars, pitrVars>>
              /\ rlsVars' # rlsVars => UNCHANGED <<mfaVars, pitrVars>>
              /\ pitrVars' # pitrVars => UNCHANGED <<mfaVars, rlsVars>>
      ]_vars

\* the second run is about to settle: checkMFA, whose backend is stable,
\* passed again, while checkRLS and checkPITR ended differently than in the
\* run before
C18_Witness ==
    /\ runPc = "checks"
    /\ stable = {"mfa"}
    /\ dashResults = [mfa |-> "pass", rls |-> "fail", pitr |-> "pass"]
    /\ mfaPc = "done" /\ rlsPc = "done" /\ pitrPc = "done"
    /\ mfaVerdict.status = "pass"
    /\ rlsVerdict.status = "pass"
    /\ pitrVerdict.status = "error"

IsPrefix(s, t) == Len(s) <= Len(t) /\ SubSeq(t, 1, Len(s)) = s

\* C19: entries leave the evidence log only by clearEvidence, which empties
\* it and changes nothing else of the run; every other step of the
\* Dashboard keeps the entries that are in the log and at most appends.
C19_OnlyClearRemovesEntries ==
    [][ \/ IsPrefix(evidence, evidence')
        \/ evidence' = <<>> /\ UNCHANGED <<loading, runPc, dashError, dashResults>>
      ]_vars

\* C20: in the step in which the three checks of a run have settled,
\* exactly three entries are appended to the evidence log, for MFA, RLS and
\* PITR in this order, and the status of each is the status of the verdict
\* that this run stores in results for that check.
C20_ThreeEntriesInOrder ==
    [][ Settles =>
          /\ Len(evidence') = Len(evidence) + 3
          /\ IsPrefix(evidence, evidence')
          /\ evidence'[Len(evidence) + 1] = [check |-> "MFA", status |-> dashResults'.mfa]
          /\ evidence'[Len(evidence) + 2] = [check |-> "RLS", status |-> dashResults'.rls]
          /\ evidence'[Len(evidence) + 3] = [check |-> "PITR", status |-> dashResults'.pitr]
          /\ dashResults' = [mfa |-> mfaVerdict.status, rls |-> rlsVerdict.status,
                             pitr |-> pitrVerdict.status]
          /\ dashResults'.mfa \in Statuses
          /\ dashResults'.rls \in Statuses
          /\ dashResults'.pitr \in Statuses
      ]_vars

\* a run has settled with three different statuses
C20_Witness ==
    /\ runPc = "idle"
    /\ ~loading
    /\ dashResults = [mfa |-> "pass", rls |-> "fail", pitr |-> "error"]
    /\ evidence = <<[check |-> "RLS", status |-> "info"],
                    [check |-> "MFA", status |-> "pass"],
                    [check |-> "RLS", status |-> "fail"],
                    [check |-> "PITR", status |-> "error"]>>

(***************************************************************************)
(* Further properties of checkMFA.                                         *)
(***************************************************************************)
HasVerifiedFactor(user) ==
    user.hasFactors /\ \E j \in DOMAIN user.factors : user.factors[j] = "verified"

\* C22: when the enumeration succeeded, an account is reported with
\* mfaEnabled = TRUE iff it has at least one verified factor, and an account
\* that has factors, all of them unverified, makes the check fail.
C22_EnabledIffVerifiedFactor ==
    (mfaPc = "done" /\ mfaVerdict.status \in {"pass", "fail"}) =>
        /\ \A i \in DOMAIN mfaUsers :
              mfaVerdict.details[i].mfaEnabled <=> HasVerifiedFactor(mfaUsers[i])
        /\ (\E i \in DOMAIN mfaUsers :
                /\ mfaUsers[i].hasFactors
                /\ Len(mfaUsers[i].factors) > 0
                /\ ~HasVerifiedFactor(mfaUsers[i]))
              => mfaVerdict.status = "fail"

(***************************************************************************)
(* Further properties of checkRLS.                                         *)
(***************************************************************************)
\* C23: on the direct-query path, the table_results entry of every table
\* whose one-row read was issued (the read answered rows, answered an error
\* or threw) has an error field that is not null, and the field is null for
\* a table whose flag came from a catalog probe.
C23_ReadProbeAlwaysTagged ==
    (DirectDone /\ rlsVerdict.status \in {"pass", "fail"}) =>
        /\ Len(rlsVerdict.table_results) = Len(tread)
        /\ \A i \in DOMAIN tread :
              /\ rlsVerdict.table_results[i].table = rlsIn.customTables[i]
              /\ tread[i] # "none" =>
                    rlsVerdict.table_results[i].error \notin {"null", "undefined", ""}
              /\ tread[i] = "none" => rlsVerdict.table_results[i].error = "null"

\* one table settled by a read that threw, one by a read that answered rows,
\* both tagged
C23_Witness ==
    /\ DirectDone
    /\ tread = <<"throw", "rows">>
    /\ rlsVerdict.status = "fail"
    /\ rlsVerdict.table_results[1].error = CouldNotQueryTag
    /\ rlsVerdict.table_results[1].rlsEnabled
    /\ rlsVerdict.table_results[2].error = FallbackTag

(***************************************************************************)
(* Further properties of the Dashboard.                                    *)
(***************************************************************************)
\* a step of handleAnalyzeIssues: one of its two early returns, the start of
\* the fetches, or the end of a fetch
AnalysisStep ==
    \/ analysing' # analysing
    \/ /\ dashError' # dashError
       /\ dashError' \in {"Please provide an OpenAI API key before analyzing issues",
                          "No failed checks to analyze"}

\* C21: no step of handleAnalyzeIssues, whether the fetch of a suggestion
\* succeeded, was answered with a status that is not 2xx, or threw, changes
\* results or the verdict of a check that is running.
C21_AnalysisKeepsVerdicts ==
    [][ AnalysisStep =>
          /\ dashResults' = dashResults
          /\ mfaVerdict' = mfaVerdict
          /\ rlsVerdict' = rlsVerdict
          /\ pitrVerdict' = pitrVerdict
      ]_vars

\* two failed checks analysed: the first fetch gave a suggestion, the second
\* threw, and both checks still stand as failed
C21_Witness ==
    /\ analysing = <<>>
    /\ Len(suggestedFixes) = 2
    /\ suggestedFixes[1] = [check |-> "MFA", suggestion |-> "suggestion", loading |-> FALSE]
    /\ suggestedFixes[2] =
          [check |-> "PITR", suggestion |-> "Error: Failed to fetch", loading |-> FALSE]
    /\ dashResults.mfa = "fail"
    /\ dashResults.pitr = "fail"
    /\ evidence[Len(evidence)] = [check |-> "AI Analysis", status |-> "error"]

\* C24: a check that has returned has a verdict with status pass, fail or
\* error, never pending; and a result of the Dashboard that is pass, fail or
\* error is not pending after any step: a new run, its settling, the update
\* of the tables list, the clearing of the log, the logout.
C24_PendingOnlyInitially ==
    [][ /\ mfaPc' = "done" => mfaVerdict'.status \in {"pass", "fail", "error"}
        /\ rlsPc' = "done" => rlsVerdict'.status \in {"pass", "fail", "error"}
        /\ pitrPc' = "done" => pitrVerdict'.status \in {"pass", "fail", "error"}
        /\ \A check \in {"mfa", "rls", "pitr"} :
              dashResults[check] # "pending" => dashResults'[check] # "pending"
      ]_vars

\* a second run is in flight and the log has been restarted, while the
\* results of the first run stand
C24_Witness ==
    /\ runPc = "checks"
    /\ mfaPc = "listUsers"
    /\ Len(evidence) = 1
    /\ dashResults = [mfa |-> "pass", rls |-> "fail", pitr |-> "error"]

\* the operator has left the Dashboard while the checks of a run are in
\* flight: handleRunChecks starts its checks only with credentials, so a run
\* without them is a run that handleLogout has interrupted
Aborted == runPc = "checks" /\ ~ctxCredentials.present

\* C25: once the operator has aborted a run whose checks are in flight, the
\* answers of the started requests may still arrive, but the run appends
\* nothing to the evidence log any more: the step that ends the run leaves
\* the log as it is.
C25_NoEntriesAfterAbort ==
    [][ (Aborted /\ runPc' = "idle") => evidence' = evidence ]_vars

\* C27: while the checks of a run are in flight, loading is TRUE, so that
\* the Run Checks button is disabled and no second run can be started,
\* whatever handleUpdateTablesList and the other handlers do meanwhile.
C27_LoadingWhileInFlight ==
    (mounted /\ runPc = "checks") => loading

\* no credentials, or a management key that is empty or does not start with
\* sbp_
RunIsRefused ==
    \/ ~ctxCredentials.present
    \/ managementApiKey = <<>>
    \/ Len(managementApiKey) < 4
    \/ SubSeq(managementApiKey, 1, 4) # <<"s", "b", "p", "_">>

\* a step of handleRunChecks that ends at one of its two guards
RefusedStep ==
    /\ mounted /\ ~loading /\ runPc = "idle"
    /\ RunIsRefused
    /\ dashError' \in {"No valid credentials found. Please log in again.",
                       "Please enter a valid Management API Key before running checks"}
    /\ dashError' # dashError \/ managementApiKeyError' # managementApiKeyError

\* no check is started, no request is issued, and the results, the log and
\* the suggestions are as before
NothingStarted ==
    /\ runPc' = "idle" /\ mfaPc' = "idle" /\ rlsPc' = "idle" /\ pitrPc' = "idle"
    /\ mfaCalls' = mfaCalls /\ rlsCalls' = rlsCalls /\ pitrCalls' = pitrCalls
    /\ mfaCalls' = {} /\ rlsCalls' = {} /\ pitrCalls' = {}
    /\ dashResults' = dashResults
    /\ evidence' = evidence
    /\ suggestedFixes' = suggestedFixes
    /\ loading' = loading
    /\ UNCHANGED <<ctxCredentials, managementApiKey, customTablesInput, opVars>>

\* C29 as stated: a refused handleRunChecks starts nothing and changes error
\* alone.
C29_OnlyErrorChanges ==
    [][ RefusedStep => NothingStarted /\ managementApiKeyError' = managementApiKeyError
      ]_vars

\* C29 as amended: a refused handleRunChecks starts nothing and leaves the
\* results, the log and the suggestions as they are; error changes, and when
\* it is the key that was refused, so does the message under the key input.
C29_RefusedRunChangesMessagesOnly ==
    [][ RefusedStep =>
          /\ NothingStarted
          /\ IF ~ctxCredentials.present
             THEN /\ dashError' = "No valid credentials found. Please log in again."
                  /\ managementApiKeyError' = managementApiKeyError
             ELSE /\ dashError' =
                        "Please enter a valid Management API Key before running checks"
                  /\ managementApiKeyError' =
                        IF managementApiKey = <<>>
                        THEN "Management API Key is required"
                        ELSE "Management API Key must start with \"sbp_\""
      ]_vars

\* the run was refused for its key, with entries of an update of the tables
\* list in the log
C29_Witness ==
    /\ runPc = "idle"
    /\ ctxCredentials.present
    /\ managementApiKey = <<"k", "e", "y">>
    /\ dashError = "Please enter a valid Management API Key before running checks"
    /\ managementApiKeyError = "Management API Key must start with \"sbp_\""
    /\ Len(evidence) = 2
    /\ dashResults = [mfa |-> "pending", rls |-> "pending", pitr |-> "pending"]
    /\ mfaCalls = {} /\ rlsCalls = {} /\ pitrCalls = {}

\* C26: checkRLS passes only if every table of the requested list was
\* resolved by a probe that completed and said that RLS is on: on the
\* Management API path the table is listed as a public table and named by a
\* policy, on the direct-query path a catalog probe of the table answered
\* that row security is on.
C26_PassOnlyIfEveryTableOn ==
    (rlsPc = "done" /\ rlsVerdict.status = "pass") =>
        \A i \in DOMAIN rlsIn.customTables :
            \/ /\ PolicyDone
               /\ \E k \in DOMAIN apiTables :
                     /\ apiTables[k].name = rlsIn.customTables[i]
                     /\ apiTables[k].schema = "public"
                     /\ apiTables[k].type = "table"
               /\ \E k \in DOMAIN apiPolicies :
                     apiPolicies[k].table = rlsIn.customTables[i]
            \/ /\ DirectDone
               /\ tflag[i] = "on"

\* C28: on the direct-query path, table_results has one entry per element
\* of the requested list, in the order of the list, in whatever order the
\* probes of the tables were answered.
C28_ResultsInListOrder ==
    (DirectDone /\ rlsVerdict.status \in {"pass", "fail"}) =>
        /\ Len(rlsVerdict.table_results) = Len(rlsIn.customTables)
        /\ \A i \in DOMAIN rlsIn.customTables :
              rlsVerdict.table_results[i].table = rlsIn.customTables[i]

\* the first table of the list went through all of its probes down to the
\* read, the second was settled by its first catalog probe; the results are
\* in the order of the list
C28_Witness ==
    /\ DirectDone
    /\ rlsIn.customTables = <<"profiles", "orders">>
    /\ tflag = <<"failed", "on">>
    /\ tread = <<"rows", "none">>
    /\ rlsVerdict.table_results =
          <<[table |-> "profiles", rlsEnabled |-> FALSE, error |-> FallbackTag],
            [table |-> "orders", rlsEnabled |-> TRUE, error |-> "null"]>>

(***************************************************************************)
(* Properties of the CredentialsProvider.                                  *)
(***************************************************************************)
\* C30: the item of the session storage is written or removed by the
\* persistence effect only when isLoaded is TRUE (before that, the load
\* effect alone removes an item that does not parse); and when isLoaded
\* becomes TRUE over an item that parses, the credentials of that item are
\* the credentials of the state, unless setCredentials or clearCredentials
\* has been called meanwhile.  The two mount effects run in either order.
C30_StoredCredentialsSurviveLoad ==
    [][ /\ storage' # storage =>
              \/ isLoaded
              \/ storage.kind = "text" /\ storage'.kind = "none"
        /\ (~isLoaded /\ isLoaded' /\ storage.kind = "json") =>
              /\ storage' = storage
              /\ ctxCredentials' = storage.value \/ called
      ]_vars

\* the credentials of an earlier mount are in the state and in the storage,
\* both effects have run and nothing else was called
C30_Witness ==
    /\ isLoaded
    /\ ~called
    /\ effects = {}
    /\ updates = <<>>
    /\ ctxCredentials = [present |-> TRUE, url |-> SupabaseUrl, serviceRoleKey |-> TRUE]
    /\ storage.kind = "json"
    /\ storage.value = ctxCredentials

====
